---- MODULE Spec2Model ----
(***************************************************************************)
(* A model of the hehe agent runtime: the shared Session                   *)
(* (hehe-agent/src/session.rs), the agent loop Executor::execute and its   *)
(* event stream (hehe-agent/src/executor.rs, agent.rs), tool dispatch      *)
(* (hehe-tools/src/executor.rs), the conversion of the log to vendor       *)
(* records and the vendor stream (hehe-llm/src/providers/openai.rs), and   *)
(* the library types Context, StreamAggregator (hehe-core), ToolRegistry   *)
(* and SandboxConfig (hehe-tools), ToolCall (hehe-core) and the server's   *)
(* session cache (hehe-server).                                            *)
(*                                                                         *)
(* The specifications share the variables:                                 *)
(*   SpecSession  callers use the Session API directly;                    *)
(*   SpecAppend   two callers append to clones of one session;             *)
(*   SpecSeq      one caller runs process calls one after the other;       *)
(*   SpecTrunc    as SpecSeq, and the log may be truncated at any moment;  *)
(*   Spec         two callers run process calls concurrently on clones of  *)
(*                one session;                                             *)
(*   SpecExec     ToolExecutor::execute is called directly;                *)
(*   SpecTools    as SpecSeq, with tool-uses dispatched through            *)
(*                ToolExecutor::execute;                                   *)
(*   SpecStream   chat_stream subscriptions and their subscriber;          *)
(*   SpecContext  Contexts derived by child(), cancelled, over time;       *)
(*   SpecToolSeq  as SpecTools, with start and end of every tool call;     *)
(*   SpecAggregator  a StreamAggregator fed chunks and cleared;            *)
(*   SpecVendor   complete_stream over the events a vendor may send;       *)
(*   SpecRegistry a ToolRegistry and ToolExecutors over it;                *)
(*   SpecSandbox  questions to a SandboxConfig;                            *)
(*   SpecToolCall the methods of one ToolCall (hehe-core/src/tool/call.rs) *)
(*                in any order;                                            *)
(*   SpecServer   request handlers calling get_or_create_session           *)
(*                (hehe-server/src/state.rs);                              *)
(*   SpecChat     as SpecSeq, with a provider that never uses tools;       *)
(*   SpecConfigured  as SpecTools, with tools_enabled set or not;          *)
(*   SpecDrop     as SpecStream, with a subscriber that may drop the       *)
(*                stream.                                                  *)
(***************************************************************************)
EXTENDS Integers, Sequences, FiniteSets, TLC

\* ------------------------------------------------------------------ bounds

\* AgentConfig.max_iterations of the modelled agent (the default is 10).
max_iterations == 2

\* Start no new process call once this many messages were appended.
MaxAppends == 4

\* With a second holder of the session: start no new call once this many
\* messages were appended.
MaxSharedAppends == 2

\* Direct Session API calls stop appending after this many appends.
MaxLog == 4

\* Direct Session API calls stop bumping a counter at this value.
MaxCount == 2

\* truncate_messages is called with a maximum up to this.
MaxTruncate == 2

\* Each concurrent appender appends up to this many messages of its own.
MaxOwnAppends == 4

\* The callers (tasks) that hold a clone of the session.
Procs == {"p1", "p2"}

\* ----------------------------------------------------------- content model

\* Option<String>: None is <<>>, Some(v) is <<v>>.
None == <<>>

Some(v) == <<v>>

\* Option::unwrap_or_default on an Option<String>
unwrap_or_default(o) == IF o = None THEN "" ELSE o[1]

\* ContentBlock::Text
TextBlock(t) ==
    [type |-> "text", id |-> "", name |-> "", text |-> t,
     content |-> None, error |-> None, is_error |-> FALSE]

\* ContentBlock::ToolUse(ToolUse::new(id, name, input))
ToolUseBlock(id, name) ==
    [type |-> "tool_use", id |-> id, name |-> name, text |-> "",
     content |-> None, error |-> None, is_error |-> FALSE]

\* ContentBlock::ToolResult(ToolResult::success(tool_use_id, content))
ToolResultSuccess(tool_use_id, content) ==
    [type |-> "tool_result", id |-> tool_use_id, name |-> "", text |-> "",
     content |-> Some(content), error |-> None, is_error |-> FALSE]

\* A faulty ToolResult::error: the flag is left at its default.
ToolResultErrorUnflagged(tool_use_id, error) ==
    [type |-> "tool_result", id |-> tool_use_id, name |-> "", text |-> "",
     content |-> None, error |-> Some(error), is_error |-> FALSE]

\* ContentBlock::ToolResult(ToolResult::error(tool_use_id, error)): the text
\* goes to the error field, content stays None.
ToolResultError(tool_use_id, error) ==
    [type |-> "tool_result", id |-> tool_use_id, name |-> "", text |-> "",
     content |-> None, error |-> Some(error), is_error |-> TRUE]

\* Message::new(role, content); the message id and timestamp are not modelled.
NewMessage(role, content) == [role |-> role, content |-> content]

\* Message::user(text)
UserMessage(t) == NewMessage("user", <<TextBlock(t)>>)

\* Message::assistant(text)
AssistantMessage(t) == NewMessage("assistant", <<TextBlock(t)>>)

\* A faulty Message::tool: built with Role::Assistant.
ToolMessageAsAssistant(content) == NewMessage("assistant", content)

\* Message::tool(content)
ToolMessage(content) == NewMessage("tool", content)

IsToolUse(b) == b.type = "tool_use"

IsText(b) == b.type = "text"

\* Message::tool_uses: the ToolUse blocks of the content, in order.
tool_uses_of(content) == SelectSeq(content, IsToolUse)

RECURSIVE JoinText(_)
JoinText(blocks) ==
    IF blocks = <<>> THEN ""
    ELSE Head(blocks).text \o JoinText(Tail(blocks))

\* Message::text_content: the text blocks joined with "".
text_content(content) == JoinText(SelectSeq(content, IsText))

\* ----------------------------------------------------------------- session

VARIABLES
    inner,          \* SessionInner {messages, stats}, shared by every clone
    appends,        \* the callers' own count of messages they appended
    last_op,        \* the last direct Session API call: [op, arg, len before]
    pc,             \* per caller: where its process call stands
    iterations,     \* per caller: the loop's local counter
    served,         \* per caller: per provider response of this call, whether
                    \*   it carried ToolUse blocks
    cur_uses,       \* per caller: tool_uses of the current response
    tool_results,   \* per caller: results of execute_tools so far
    all_tool_calls, \* per caller: the ToolCallRecords collected
    result,         \* per caller: what the call returned
    at_start,       \* per caller: stats() and log length seen when it started
    tools,          \* Agent.tools: whether a ToolExecutor (registry) is present
    sent,           \* per caller: the messages it appended itself, in its order
    stream_pc,      \* where the task spawned by chat_stream stands
    chan,           \* the events in the mpsc channel, sent and not yet received
    observed,       \* the events the subscriber has received, in order
    tool_ctx,       \* the Context execute_tools built, and the time since
    last_exec,      \* the last ToolExecutor::execute call: inputs and result
    ctxs,           \* the Contexts made so far, each with where it came from
    tokens,         \* the CancellationTokens behind them
    clock,          \* Timestamp::now(), in ticks
    tool_trace,     \* the tool-uses execute_tools started and finished
    agg,            \* a StreamAggregator
    pushed,         \* the chunks pushed into it since new() or clear()
    vendor,         \* a complete_stream stream: events left, chunks yielded
    registered,     \* ToolRegistry.tools: name -> the tool registered
    last_call,      \* the last call of a library function: inputs and result
    tool_call,      \* a ToolCall record: status and timestamps
    sessions,       \* AppState.sessions: id -> the Session stored
    requests,       \* per request: where its get_or_create_session stands
    arcs,           \* the SessionInner allocations made so far, with their ids
    rx_dropped,     \* whether the receiver of the event channel was dropped
    tools_enabled   \* AgentConfig.tools_enabled

\* The variables of the direct appenders, the event stream and tool dispatch.
extVars == <<sent, stream_pc, chan, observed, tool_ctx, last_exec>>

\* The variables of the library types: Context, StreamAggregator, the vendor
\* stream, ToolRegistry and the functions called on their own.
libVars == <<ctxs, tokens, clock, tool_trace, agg, pushed, vendor, registered,
             last_call>>

\* The variables of the server state, the ToolCall record and the agent's
\* configuration.
srvVars == <<tool_call, sessions, requests, arcs, rx_dropped, tools_enabled>>

vars == <<inner, appends, last_op, pc, iterations, served, cur_uses,
          tool_results, all_tool_calls, result, at_start, tools, extVars,
          libVars, srvVars>>

procVars == <<pc, iterations, served, cur_uses, tool_results, all_tool_calls,
              result, at_start, tools, extVars, libVars, srvVars>>

\* The variables of the session, the agent loop and its callers.
agentVars == <<inner, appends, last_op, pc, iterations, served, cur_uses,
               tool_results, all_tool_calls, result, at_start, tools, extVars,
               srvVars>>

\* The variables of the session, the agent loop and the library types.
baseVars == <<inner, appends, last_op, pc, iterations, served, cur_uses,
              tool_results, all_tool_calls, result, at_start, tools, extVars,
              libVars>>

\* SessionStats::default
DefaultStats == [message_count |-> 0, tool_call_count |-> 0, iteration_count |-> 0]

\* Session::new: an empty log and zeroed stats.
NewInner == [messages |-> <<>>, stats |-> DefaultStats]

\* A faulty add_message: the message is inserted at the front of the log.
add_message_prepend(s, m) ==
    [messages |-> <<m>> \o s.messages,
     stats |-> [s.stats EXCEPT !.message_count = @ + 1]]

\* Session::add_message: under the write lock, count bump and push.
add_message(s, m) ==
    [messages |-> Append(s.messages, m),
     stats |-> [s.stats EXCEPT !.message_count = @ + 1]]

\* A faulty add_messages: the counter is bumped once for the whole batch.
add_messages_once(s, ms) ==
    IF ms = <<>> THEN s
    ELSE [messages |-> s.messages \o ms,
          stats |-> [s.stats EXCEPT !.message_count = @ + 1]]

RECURSIVE add_messages(_, _)
\* Session::add_messages: one count bump and one push per message.
add_messages(s, ms) ==
    IF ms = <<>> THEN s
    ELSE add_messages(add_message(s, Head(ms)), Tail(ms))

\* Session::messages
messages_of(s) == s.messages

\* Session::message_count (the length of the log, not the counter)
message_count(s) == Len(s.messages)

\* Session::last_messages
last_messages(s, n) ==
    LET len == Len(s.messages) IN
    IF n >= len THEN s.messages
    ELSE SubSeq(s.messages, len - n + 1, len)

\* Session::clear: the log is emptied, the stats are not touched.
clear(s) == [s EXCEPT !.messages = <<>>]

\* Session::increment_tool_calls
increment_tool_calls(s, count) ==
    [s EXCEPT !.stats.tool_call_count = @ + count]

\* A faulty increment_iterations: the neighbouring counter is bumped.
increment_wrong_counter(s) ==
    [s EXCEPT !.stats.tool_call_count = @ + 1]

\* A faulty increment_iterations: the counter is bumped by two.
increment_iterations_twice(s) ==
    [s EXCEPT !.stats.iteration_count = @ + 2]

\* Session::increment_iterations
increment_iterations(s) ==
    [s EXCEPT !.stats.iteration_count = @ + 1]

\* A faulty truncate_messages: Vec::truncate, which keeps the oldest.
truncate_keeps_oldest(s, max_messages) ==
    IF Len(s.messages) > max_messages
    THEN [s EXCEPT !.messages = SubSeq(@, 1, max_messages)]
    ELSE s

\* Session::truncate_messages: drain(0..remove_count) when longer than max.
truncate_messages(s, max_messages) ==
    IF Len(s.messages) > max_messages
    THEN LET remove_count == Len(s.messages) - max_messages IN
         [s EXCEPT !.messages = SubSeq(@, remove_count + 1, Len(@))]
    ELSE s

\* --------------------------------------------------- direct Session callers

\* Messages a direct caller appends.
ApiMessages == {UserMessage("Hello"), AssistantMessage("Hi there!"),
                ToolMessage(<<ToolResultSuccess("call_1", "out")>>)}

\* What a caller holds before its process call returns.
NoResult == [kind |-> "none", n |-> 0, text |-> "", tool_calls |-> <<>>, iterations |-> 0]

NoOp == [op |-> "none", arg |-> 0, len |-> 0]

IdleProcs ==
    /\ pc = [p \in Procs |-> "idle"]
    /\ iterations = [p \in Procs |-> 0]
    /\ served = [p \in Procs |-> <<>>]
    /\ cur_uses = [p \in Procs |-> <<>>]
    /\ tool_results = [p \in Procs |-> <<>>]
    /\ all_tool_calls = [p \in Procs |-> <<>>]
    /\ result = [p \in Procs |-> NoResult]
    /\ at_start = [p \in Procs |-> [stats |-> DefaultStats, len |-> 0]]

\* No ToolExecutor::execute call was made yet.
NoExec == [called |-> FALSE]

\* execute_tools has built no Context yet.
NoToolCtx == [ctx |-> [cancelled |-> FALSE, deadline |-> None], now |-> 0]

\* Nobody appended directly, no stream is open, no tool was dispatched.
IdleExt ==
    /\ sent = [p \in Procs |-> <<>>]
    /\ stream_pc = "none"
    /\ chan = <<>>
    /\ observed = <<>>
    /\ tool_ctx = NoToolCtx
    /\ last_exec = NoExec

\* StreamAggregator::new (Default): nothing seen yet.
AggregatorNew ==
    [message_id |-> None, text_buffer |-> "", tool_uses |-> <<>>,
     stop_reason |-> None, input_tokens |-> 0, output_tokens |-> 0,
     error |-> None]

\* No complete_stream call was made yet.
NoVendor == [events |-> <<>>, chunks |-> <<>>, state |-> "none"]

\* No library function was called yet.
NoCall == [fn |-> "none"]

\* One Context from Context::new, an empty aggregator and registry.
IdleLib ==
    /\ ctxs = <<[ctx |-> [deadline |-> None, token |-> 1], from |-> 0,
                 cancel_called |-> FALSE]>>
    /\ tokens = <<[parent |-> 0, cancelled |-> FALSE]>>
    /\ clock = 0
    /\ tool_trace = <<>>
    /\ agg = AggregatorNew
    /\ pushed = <<>>
    /\ vendor = NoVendor
    /\ registered = <<>>
    /\ last_call = NoCall

\* ToolCallStatus
ToolCallStatuses == {"Pending", "Running", "Completed", "Failed", "Cancelled"}

\* ToolCall::new: Pending, nothing recorded yet.
ToolCallNew ==
    [status |-> "Pending", output |-> None, error |-> None,
     started_at |-> None, completed_at |-> None]

\* The requests the server handles at the same time.
Requests == {"r1", "r2"}

\* AppState::new with no request under way, a fresh ToolCall, a subscriber
\* that listens, and AgentConfig::default (tools_enabled).
IdleSrv ==
    /\ tool_call = ToolCallNew
    /\ sessions = <<>>
    /\ requests = [r \in Requests |-> [pc |-> "idle", id |-> None, got |-> 0]]
    /\ arcs = <<>>
    /\ rx_dropped = FALSE
    /\ tools_enabled = TRUE

\* A new session and an agent built without a tool registry.
Init ==
    /\ inner = NewInner
    /\ appends = 0
    /\ last_op = NoOp
    /\ IdleProcs
    /\ IdleExt
    /\ IdleLib
    /\ IdleSrv
    /\ tools = "none"

ApiAddMessage(m) ==
    /\ inner.stats.message_count < MaxLog
    /\ inner' = add_message(inner, m)
    /\ appends' = appends + 1
    /\ last_op' = [op |-> "add_message", arg |-> 1, len |-> Len(inner.messages)]
    /\ UNCHANGED procVars

ApiAddMessages(ms) ==
    /\ inner.stats.message_count + Len(ms) <= MaxLog
    /\ inner' = add_messages(inner, ms)
    /\ appends' = appends + Len(ms)
    /\ last_op' = [op |-> "add_messages", arg |-> Len(ms), len |-> Len(inner.messages)]
    /\ UNCHANGED procVars

ApiTruncate(max_messages) ==
    /\ inner' = truncate_messages(inner, max_messages)
    /\ last_op' = [op |-> "truncate_messages", arg |-> max_messages, len |-> Len(inner.messages)]
    /\ UNCHANGED <<appends, procVars>>

ApiClear ==
    /\ inner' = clear(inner)
    /\ last_op' = [op |-> "clear", arg |-> 0, len |-> Len(inner.messages)]
    /\ UNCHANGED <<appends, procVars>>

ApiIncrementToolCalls(count) ==
    /\ inner.stats.tool_call_count + count <= MaxCount
    /\ inner' = increment_tool_calls(inner, count)
    /\ last_op' = [op |-> "increment_tool_calls", arg |-> count, len |-> Len(inner.messages)]
    /\ UNCHANGED <<appends, procVars>>

ApiIncrementIterations ==
    /\ inner.stats.iteration_count < MaxCount
    /\ inner' = increment_iterations(inner)
    /\ last_op' = [op |-> "increment_iterations", arg |-> 0, len |-> Len(inner.messages)]
    /\ UNCHANGED <<appends, procVars>>

NextSession ==
    \/ \E m \in ApiMessages : ApiAddMessage(m)
    \/ \E m1, m2 \in ApiMessages : ApiAddMessages(<<m1, m2>>)
    \/ ApiAddMessages(<<>>)
    \/ \E max_messages \in 0..MaxLog : ApiTruncate(max_messages)
    \/ ApiClear
    \/ \E count \in 1..2 : ApiIncrementToolCalls(count)
    \/ ApiIncrementIterations

SpecSession == Init /\ [][NextSession]_vars

\* ------------------------------------------------------ concurrent appenders

\* The k-th message of caller p; Message::new gives every message its own id,
\* here the text tells the messages apart.
OwnMessage(p, k) == UserMessage(p \o "-" \o ToString(k))

\* Caller p calls add_message on its clone of the session.
AppendOwn(p) ==
    /\ Len(sent[p]) < MaxOwnAppends
    /\ inner' = add_message(inner, OwnMessage(p, Len(sent[p]) + 1))
    /\ sent' = [sent EXCEPT ![p] = Append(@, OwnMessage(p, Len(sent[p]) + 1))]
    /\ appends' = appends + 1
    /\ UNCHANGED <<last_op, pc, iterations, served, cur_uses, tool_results,
                   all_tool_calls, result, at_start, tools, stream_pc, chan,
                   observed, tool_ctx, last_exec, libVars, srvVars>>

NextAppend == \E p \in Procs : AppendOwn(p)

\* Concurrent appenders on clones of one session.
SpecAppend == Init /\ [][NextAppend]_vars

\* ------------------------------------------------------------ the agent loop

\* What the provider may answer: block lists with and without ToolUse blocks,
\* one of them with the text between two tool-uses.
ResponseContents ==
    { <<TextBlock("Hello!")>>,
      <<ToolUseBlock("a", "echo")>>,
      <<ToolUseBlock("b", "echo"), TextBlock("t"), ToolUseBlock("a", "noop")>> }

\* llm.complete(request): an LlmError, or a response message with this content.
ProviderResults ==
    {[ok |-> FALSE, content |-> <<>>]}
        \cup {[ok |-> TRUE, content |-> c] : c \in ResponseContents}

\* What tools.execute gives for one tool-use: Ok(output) with is_error false
\* or true, or Err(e).
ToolOutcomes ==
    {[ok |-> TRUE, content |-> "out", is_error |-> FALSE],
     [ok |-> TRUE, content |-> "failed", is_error |-> TRUE],
     [ok |-> FALSE, content |-> "Tool error", is_error |-> FALSE]}

\* The smaller choice used when the session has a second holder.
SharedProviderResults ==
    {r \in ProviderResults : Len(r.content) <= 1}

SharedToolOutcomes ==
    {o \in ToolOutcomes : o.ok}

\* CompletionResponse::has_tool_use: any block of the answer is a ToolUse.
has_tool_use(content) == \E i \in 1..Len(content) : content[i].type = "tool_use"

\* What the provider was seen to answer to one request.
ResponseKind(r) ==
    IF ~r.ok THEN "error"
    ELSE IF has_tool_use(r.content) THEN "tool_use" ELSE "text"

\* A faulty bound check: >= for >.
ExceedsMaxOffByOne(n) == n >= max_iterations

\* The loop's bound check: iterations > self.config.max_iterations.
ExceedsMax(n) == n > max_iterations

\* Err(AgentError::MaxIterationsReached(max_iterations))
MaxIterationsReached ==
    [kind |-> "MaxIterationsReached", n |-> max_iterations, text |-> "",
     tool_calls |-> <<>>, iterations |-> 0]

\* A faulty error conversion: the provider's error is reported as Internal.
LlmFailedAsInternal ==
    [kind |-> "Internal", n |-> 0, text |-> "", tool_calls |-> <<>>, iterations |-> 0]

\* Err(AgentError::Llm(e)), from the ? on llm.complete
LlmFailed ==
    [kind |-> "Llm", n |-> 0, text |-> "", tool_calls |-> <<>>, iterations |-> 0]

\* A faulty success value: with_iterations is left out, so AgentResponse::new's
\* iterations: 1 stays.
AgentResponseDefaultIterations(text, calls, n) ==
    [kind |-> "ok", n |-> 0, text |-> text, tool_calls |-> calls, iterations |-> 1]

\* Ok(AgentResponse::new(id, text).with_tool_calls(..).with_iterations(..))
AgentResponse(text, calls, n) ==
    [kind |-> "ok", n |-> 0, text |-> text, tool_calls |-> calls, iterations |-> n]

RECURSIVE ToolUseBlocks(_)
\* The for loop pushing one ToolUse block per tool-use.
ToolUseBlocks(uses) ==
    IF uses = <<>> THEN <<>>
    ELSE <<ToolUseBlock(Head(uses).id, Head(uses).name)>> \o ToolUseBlocks(Tail(uses))

\* A faulty assistant_content: only the text is mirrored.
assistant_content_text_only(content) ==
    IF text_content(content) # "" THEN <<TextBlock(text_content(content))>> ELSE <<>>

\* assistant_content: the response text, when not empty, then the tool-uses.
assistant_content(content) ==
    (IF text_content(content) # "" THEN <<TextBlock(text_content(content))>> ELSE <<>>)
        \o ToolUseBlocks(tool_uses_of(content))

\* A faulty entry of execute_tools' result: the error's text is dropped.
ToolResultOfErrEmpty(outcome) ==
    IF outcome.ok
    THEN [output |-> outcome.content, is_error |-> outcome.is_error]
    ELSE [output |-> "", is_error |-> TRUE]

\* One entry of execute_tools' result: (output or error text, is_error).
ToolResultOf(outcome) ==
    IF outcome.ok
    THEN [output |-> outcome.content, is_error |-> outcome.is_error]
    ELSE [output |-> outcome.content, is_error |-> TRUE]

\* execute_tools without a ToolExecutor: every tool-use fails the same way.
NotAvailable(uses) ==
    [i \in 1..Len(uses) |->
        [output |-> "Tool execution not available: " \o uses[i].name,
         is_error |-> TRUE]]

\* tool_uses.iter().zip(&tool_results): as long as the shorter of the two.
ZipLen(uses, results) ==
    IF Len(uses) < Len(results) THEN Len(uses) ELSE Len(results)

\* A faulty tool_result_content: keyed by the tool's name, not the tool-use id.
tool_result_content_by_name(uses, results) ==
    [i \in 1..ZipLen(uses, results) |->
        IF results[i].is_error
        THEN ToolResultError(uses[i].name, results[i].output)
        ELSE ToolResultSuccess(uses[i].name, results[i].output)]

\* tool_result_content: one ToolResult per (tool-use, result) pair.
tool_result_content(uses, results) ==
    [i \in 1..ZipLen(uses, results) |->
        IF results[i].is_error
        THEN ToolResultError(uses[i].id, results[i].output)
        ELSE ToolResultSuccess(uses[i].id, results[i].output)]

\* Faulty ToolCallRecords: the record's id is the tool's name.
ToolCallRecordsIdIsName(uses, results) ==
    [i \in 1..ZipLen(uses, results) |->
        [id |-> uses[i].name, name |-> uses[i].name,
         output |-> results[i].output, is_error |-> results[i].is_error]]

\* The ToolCallRecords pushed for one iteration.
ToolCallRecords(uses, results) ==
    [i \in 1..ZipLen(uses, results) |->
        [id |-> uses[i].id, name |-> uses[i].name,
         output |-> results[i].output, is_error |-> results[i].is_error]]

\* The agent is built once, with or without a tool registry.
InitAgent ==
    /\ inner = NewInner
    /\ appends = 0
    /\ last_op = NoOp
    /\ IdleProcs
    /\ IdleExt
    /\ IdleLib
    /\ IdleSrv
    /\ tools \in {"none", "some"}

\* execute is entered: the user message is appended, the locals are fresh.
Start(p, user_input, cap) ==
    /\ pc[p] \in {"idle", "done"}
    /\ inner.stats.message_count < cap
    /\ inner' = add_message(inner, UserMessage(user_input))
    /\ pc' = [pc EXCEPT ![p] = "loop"]
    /\ iterations' = [iterations EXCEPT ![p] = 0]
    /\ served' = [served EXCEPT ![p] = <<>>]
    /\ cur_uses' = [cur_uses EXCEPT ![p] = <<>>]
    /\ tool_results' = [tool_results EXCEPT ![p] = <<>>]
    /\ all_tool_calls' = [all_tool_calls EXCEPT ![p] = <<>>]
    /\ result' = [result EXCEPT ![p] = NoResult]
    /\ at_start' = [at_start EXCEPT ![p] =
                        [stats |-> inner.stats, len |-> Len(inner.messages)]]
    /\ UNCHANGED <<appends, last_op, tools, extVars, libVars, srvVars>>

\* The head of the loop: both counters are bumped, then the bound is checked;
\* within the bound the request is built and sent.
LoopHead(p) ==
    /\ pc[p] = "loop"
    /\ iterations' = [iterations EXCEPT ![p] = @ + 1]
    /\ inner' = increment_iterations(inner)
    /\ IF ExceedsMax(iterations[p] + 1)
       THEN /\ result' = [result EXCEPT ![p] = MaxIterationsReached]
            /\ pc' = [pc EXCEPT ![p] = "done"]
       ELSE /\ pc' = [pc EXCEPT ![p] = "llm"]
            /\ UNCHANGED result
    /\ UNCHANGED <<appends, last_op, served, cur_uses, tool_results,
                   all_tool_calls, at_start, tools, extVars, libVars, srvVars>>

\* llm.complete returns: an error ends the call; a response without tool-uses
\* is appended and ends the call; one with tool-uses is mirrored into the log.
Complete(p, r) ==
    /\ pc[p] = "llm"
    /\ served' = [served EXCEPT ![p] = Append(@, ResponseKind(r))]
    /\ IF ~r.ok
       THEN /\ result' = [result EXCEPT ![p] = LlmFailed]
            /\ pc' = [pc EXCEPT ![p] = "done"]
            /\ UNCHANGED <<inner, cur_uses, tool_results>>
       ELSE IF tool_uses_of(r.content) = <<>>
       THEN /\ inner' = add_message(inner, AssistantMessage(text_content(r.content)))
            /\ result' = [result EXCEPT ![p] =
                    AgentResponse(text_content(r.content), all_tool_calls[p],
                                  iterations[p])]
            /\ pc' = [pc EXCEPT ![p] = "done"]
            /\ UNCHANGED <<cur_uses, tool_results>>
       ELSE /\ inner' = add_message(inner,
                    NewMessage("assistant", assistant_content(r.content)))
            /\ cur_uses' = [cur_uses EXCEPT ![p] = tool_uses_of(r.content)]
            /\ tool_results' = [tool_results EXCEPT ![p] = <<>>]
            /\ pc' = [pc EXCEPT ![p] = "tools"]
            /\ UNCHANGED result
    /\ UNCHANGED <<appends, last_op, iterations, all_tool_calls, at_start, tools, extVars, libVars, srvVars>>

\* execute_tools with a ToolExecutor: the next tool-use is executed and its
\* result pushed; after the last one execute_tools returns.
ExecuteTool(p, outcome) ==
    /\ pc[p] = "tools"
    /\ tools = "some"
    /\ Len(tool_results[p]) < Len(cur_uses[p])
    /\ tool_results' = [tool_results EXCEPT ![p] = Append(@, ToolResultOf(outcome))]
    /\ pc' = [pc EXCEPT ![p] =
                IF Len(tool_results[p]) + 1 = Len(cur_uses[p]) THEN "record" ELSE "tools"]
    /\ UNCHANGED <<inner, appends, last_op, iterations, served, cur_uses,
                   all_tool_calls, result, at_start, tools, extVars, libVars, srvVars>>

\* execute_tools without a ToolExecutor returns at once.
ToolsUnavailable(p) ==
    /\ pc[p] = "tools"
    /\ tools = "none"
    /\ tool_results' = [tool_results EXCEPT ![p] = NotAvailable(cur_uses[p])]
    /\ pc' = [pc EXCEPT ![p] = "record"]
    /\ UNCHANGED <<inner, appends, last_op, iterations, served, cur_uses,
                   all_tool_calls, result, at_start, tools, extVars, libVars, srvVars>>

\* After execute_tools: the records are kept, tool_call_count is bumped and
\* the tool message is appended; the loop goes round.
RecordToolResults(p) ==
    /\ pc[p] = "record"
    /\ all_tool_calls' = [all_tool_calls EXCEPT ![p] =
            @ \o ToolCallRecords(cur_uses[p], tool_results[p])]
    /\ inner' = add_message(
            increment_tool_calls(inner, Len(tool_results[p])),
            ToolMessage(tool_result_content(cur_uses[p], tool_results[p])))
    /\ pc' = [pc EXCEPT ![p] = "loop"]
    /\ UNCHANGED <<appends, last_op, iterations, served, cur_uses, tool_results,
                   result, at_start, tools, extVars, libVars, srvVars>>

\* Some holder of the session truncates the log (Session::truncate_messages).
Truncate(max_messages) ==
    /\ inner' = truncate_messages(inner, max_messages)
    /\ UNCHANGED <<appends, last_op, procVars>>

\* One caller, one process call at a time.
NextSeq ==
    \/ Start("p1", "Hi", MaxAppends)
    \/ LoopHead("p1")
    \/ \E r \in ProviderResults : Complete("p1", r)
    \/ \E o \in ToolOutcomes : ExecuteTool("p1", o)
    \/ ToolsUnavailable("p1")
    \/ RecordToolResults("p1")

SpecSeq == InitAgent /\ [][NextSeq]_vars

\* One caller's process calls, and truncations of the log by another holder
\* of the session at any moment.
NextTrunc ==
    \/ Start("p1", "Hi", MaxSharedAppends)
    \/ LoopHead("p1")
    \/ \E r \in SharedProviderResults : Complete("p1", r)
    \/ \E o \in SharedToolOutcomes : ExecuteTool("p1", o)
    \/ ToolsUnavailable("p1")
    \/ RecordToolResults("p1")
    \/ \E max_messages \in 0..MaxTruncate : Truncate(max_messages)

SpecTrunc == InitAgent /\ [][NextTrunc]_vars

\* Callers on clones of one session, interleaved at every step.
Next ==
    \/ \E p \in Procs : Start(p, "Hi", MaxSharedAppends)
    \/ \E p \in Procs : LoopHead(p)
    \/ \E p \in Procs, r \in SharedProviderResults : Complete(p, r)
    \/ \E p \in Procs, o \in SharedToolOutcomes : ExecuteTool(p, o)
    \/ \E p \in Procs : ToolsUnavailable(p)
    \/ \E p \in Procs : RecordToolResults(p)

Spec == InitAgent /\ [][Next]_vars

\* ------------------------------------------------------------ tool dispatch

\* Durations, deadlines and clocks are counted in ticks and range up to this.
MaxTime == 3

\* One tick in milliseconds (a tick is 30 s): Duration::as_millis.
MillisPerTick == 30000

\* ToolExecutor::new: default_timeout is 60 s.
default_timeout == 2

\* AgentConfig::tool_timeout(): tool_timeout_secs, 60 by default.
tool_timeout == 2

\* The names in the agent's ToolRegistry.
RegisteredTools == {"echo"}

\* Context::new: no deadline, a token nobody cancelled; time is counted from
\* started_at.
ContextNew == [cancelled |-> FALSE, deadline |-> None]

\* A faulty with_timeout: the deadline is not set.
with_timeout_unset(ctx, timeout) == ctx

\* Context::with_timeout: deadline = started_at + timeout.
with_timeout(ctx, timeout) == [ctx EXCEPT !.deadline = Some(timeout)]

\* Context::with_deadline
with_deadline(ctx, deadline) == [ctx EXCEPT !.deadline = Some(deadline)]

\* Context::cancel, seen through is_cancelled afterwards.
cancel(ctx) == [ctx EXCEPT !.cancelled = TRUE]

\* Context::is_timeout
is_timeout(ctx, now) == ctx.deadline # None /\ now > ctx.deadline[1]

\* Context::is_done
is_done(ctx, now) == ctx.cancelled \/ is_timeout(ctx, now)

\* Context::is_cancelled: the token only, the deadline is not looked at.
is_cancelled(ctx, now) == ctx.cancelled

\* A faulty remaining: the difference is not cut off at zero.
remaining_not_clamped(ctx, now) ==
    IF ctx.deadline = None THEN None ELSE Some(ctx.deadline[1] - now)

\* Context::remaining
remaining(ctx, now) ==
    IF ctx.deadline = None THEN None
    ELSE IF ctx.deadline[1] > now THEN Some(ctx.deadline[1] - now) ELSE Some(0)

\* Duration::min
Min(a, b) == IF a < b THEN a ELSE b

\* A faulty execute_timeout: the context's remaining time is not looked at.
execute_timeout_default_only(ctx, now, default) == default

\* execute_timeout = ctx.remaining().unwrap_or(default).min(default)
execute_timeout(ctx, now, default) ==
    Min(IF remaining(ctx, now) = None THEN default ELSE remaining(ctx, now)[1],
        default)

\* What a tool does when called: whether validate_input accepts, how long
\* execute runs, what it returns ("ok": ToolOutput::text, "business_error":
\* ToolOutput::error, "failed": Err(ExecutionFailed)), and whether it cancels
\* the context it was given.
ToolBehaviours ==
    [valid : BOOLEAN, duration : 0..MaxTime,
     result : {"ok", "business_error", "failed"}, cancels : BOOLEAN]

\* Ok(output)
OkOutput(content, is_err, calls, t, took) ==
    [ok |-> TRUE, err |-> "", content |-> content, is_error |-> is_err,
     calls |-> calls, timeout |-> t, took |-> took]

\* Err(e), with e.to_string() as content
ErrOutput(kind, text, calls, t, took) ==
    [ok |-> FALSE, err |-> kind, content |-> text, is_error |-> FALSE,
     calls |-> calls, timeout |-> t, took |-> took]

\* What tool.execute returns when it is let run to its end.
ToolOwnResult(name, tool, calls, t) ==
    CASE tool.result = "ok" -> OkOutput("out", FALSE, calls, t, tool.duration)
      [] tool.result = "business_error" ->
            OkOutput("failed", TRUE, calls, t, tool.duration)
      [] OTHER ->
            ErrOutput("ExecutionFailed",
                      "Execution failed: " \o name \o " - boom", calls, t,
                      tool.duration)

\* A faulty order of the checks: cancellation before the lookup.
execute_cancel_first(registry, default, ctx, now, name, tool) ==
    IF is_cancelled(ctx, now)
    THEN ErrOutput("Cancelled", "Cancelled", <<"is_cancelled">>, 0, 0)
    ELSE IF name \notin registry
    THEN ErrOutput("NotFound", "Tool not found: " \o name,
                   <<"is_cancelled", "get">>, 0, 0)
    ELSE IF ~tool.valid
    THEN ErrOutput("InvalidInput", "Invalid input: bad",
                   <<"is_cancelled", "get", "validate_input">>, 0, 0)
    ELSE LET t == execute_timeout(ctx, now, default)
             calls == <<"is_cancelled", "get", "validate_input", "execute">>
         IN IF tool.duration <= t
            THEN ToolOwnResult(name, tool, calls, t)
            ELSE ErrOutput("Timeout",
                           "Timeout after " \o ToString(t * MillisPerTick) \o "ms",
                           calls, t, t)

\* ToolExecutor::execute: lookup, cancellation, validation, then the tool
\* under the timeout. calls lists what was called, in order; timeout is the
\* effective timeout, took the time that passed. tokio's timeout polls the
\* tool before the timer, so a tool that is done at the timeout wins.
execute(registry, default, ctx, now, name, tool) ==
    IF name \notin registry
    THEN ErrOutput("NotFound", "Tool not found: " \o name, <<"get">>, 0, 0)
    ELSE IF is_cancelled(ctx, now)
    THEN ErrOutput("Cancelled", "Cancelled", <<"get", "is_cancelled">>, 0, 0)
    ELSE IF ~tool.valid
    THEN ErrOutput("InvalidInput", "Invalid input: bad",
                   <<"get", "is_cancelled", "validate_input">>, 0, 0)
    ELSE LET t == execute_timeout(ctx, now, default)
             calls == <<"get", "is_cancelled", "validate_input", "execute">>
         IN IF tool.duration <= t
            THEN ToolOwnResult(name, tool, calls, t)
            ELSE ErrOutput("Timeout",
                           "Timeout after " \o ToString(t * MillisPerTick) \o "ms",
                           calls, t, t)

\* The contexts a caller of ToolExecutor::execute may hold.
Contexts ==
    {ContextNew, cancel(ContextNew)}
        \cup {with_deadline(ContextNew, d) : d \in 0..MaxTime}
        \cup {cancel(with_deadline(ContextNew, d)) : d \in 0..MaxTime}

\* ToolExecutor::execute is called directly, at time now after the context
\* was made, on an executor built with_timeout(default).
CallExecute(ctx, now, default, name, tool) ==
    /\ ~last_exec.called
    /\ last_exec' =
          [called |-> TRUE, ctx |-> ctx, now |-> now, default |-> default,
           name |-> name, tool |-> tool,
           out |-> execute(RegisteredTools, default, ctx, now, name, tool)]
    /\ UNCHANGED <<inner, appends, last_op, pc, iterations, served, cur_uses,
                   tool_results, all_tool_calls, result, at_start, tools,
                   sent, stream_pc, chan, observed, tool_ctx, libVars, srvVars>>

\* The call has returned and its result was dropped.
ExecuteReturned ==
    /\ last_exec.called
    /\ last_exec' = NoExec
    /\ UNCHANGED <<inner, appends, last_op, pc, iterations, served, cur_uses,
                   tool_results, all_tool_calls, result, at_start, tools,
                   sent, stream_pc, chan, observed, tool_ctx, libVars, srvVars>>

NextExec ==
    \/ \E ctx \in Contexts, now \in 0..MaxTime, default \in 1..MaxTime,
          name \in {"echo", "noop"},
          tool \in {b \in ToolBehaviours : ~b.cancels} :
           CallExecute(ctx, now, default, name, tool)
    \/ ExecuteReturned

\* Direct calls of ToolExecutor::execute.
SpecExec == Init /\ [][NextExec]_vars

\* ---------------------------------------------- the loop with a tool registry

\* With tools dispatched through the registry: start no new call once this
\* many messages were appended.
MaxToolAppends == 1

\* The tools the loop meets: one that answers at once, one that reports a
\* failure in its output, one that fails, one that rejects its input, one
\* that outlasts every timeout, and one that cancels the context it is given.
LoopToolBehaviours ==
    {[valid |-> TRUE, duration |-> 0, result |-> "ok", cancels |-> FALSE],
     [valid |-> TRUE, duration |-> 0, result |-> "business_error", cancels |-> FALSE],
     [valid |-> TRUE, duration |-> 1, result |-> "failed", cancels |-> FALSE],
     [valid |-> FALSE, duration |-> 0, result |-> "ok", cancels |-> FALSE],
     [valid |-> TRUE, duration |-> MaxTime, result |-> "ok", cancels |-> FALSE],
     [valid |-> TRUE, duration |-> 1, result |-> "ok", cancels |-> TRUE]}

\* The Context of this execute_tools call: built before the first tool-use,
\* shared by the later ones.
CurrentToolCtx(p) ==
    IF tool_results[p] = <<>>
    THEN [ctx |-> with_timeout(ContextNew, tool_timeout), now |-> 0]
    ELSE tool_ctx

\* One round of the for loop of execute_tools with a ToolExecutor:
\* tools.execute is called for the next tool-use with the shared Context and
\* its result is pushed; after the last one execute_tools returns.
DispatchEffects(p, tool) ==
    /\ pc[p] = "tools"
    /\ tools = "some"
    /\ Len(tool_results[p]) < Len(cur_uses[p])
    /\ LET use == cur_uses[p][Len(tool_results[p]) + 1]
           c == CurrentToolCtx(p)
           out == execute(RegisteredTools, default_timeout, c.ctx, c.now,
                          use.name, tool)
       IN /\ tool_results' = [tool_results EXCEPT ![p] = Append(@,
                 ToolResultOf([ok |-> out.ok, content |-> out.content,
                               is_error |-> out.is_error]))]
          /\ tool_ctx' =
                [ctx |-> IF tool.cancels /\ out.calls[Len(out.calls)] = "execute"
                         THEN cancel(c.ctx) ELSE c.ctx,
                 now |-> c.now + out.took]
          /\ last_exec' =
                [called |-> TRUE, ctx |-> c.ctx, now |-> c.now,
                 default |-> default_timeout, name |-> use.name, tool |-> tool,
                 out |-> out]
    /\ pc' = [pc EXCEPT ![p] =
                IF Len(tool_results[p]) + 1 = Len(cur_uses[p]) THEN "record" ELSE "tools"]
    /\ UNCHANGED <<inner, appends, last_op, iterations, served, cur_uses,
                   all_tool_calls, result, at_start, tools, sent, stream_pc,
                   chan, observed>>

\* execute_tools with a ToolExecutor, one tool-use per step from the call of
\* tools.execute to the push of its result.
DispatchTool(p, tool) ==
    /\ DispatchEffects(p, tool)
    /\ UNCHANGED <<libVars, srvVars>>

\* What the provider may answer here: an error, a text, two tool-uses of
\* registered tools, or an unregistered tool before a registered one.
ToolProviderResults ==
    {[ok |-> FALSE, content |-> <<>>],
     [ok |-> TRUE, content |-> <<TextBlock("Hello!")>>],
     [ok |-> TRUE, content |-> <<ToolUseBlock("a", "echo"), ToolUseBlock("b", "echo")>>],
     [ok |-> TRUE, content |-> <<ToolUseBlock("c", "noop"), ToolUseBlock("d", "echo")>>]}

NextTools ==
    \/ Start("p1", "Hi", MaxToolAppends)
    \/ LoopHead("p1")
    \/ \E r \in ToolProviderResults : Complete("p1", r)
    \/ \E tool \in LoopToolBehaviours : DispatchTool("p1", tool)
    \/ ToolsUnavailable("p1")
    \/ RecordToolResults("p1")

\* One caller's process calls on an agent whose tool-uses go through
\* ToolExecutor::execute.
SpecTools == InitAgent /\ [][NextTools]_vars

\* -------------------------------------------------------- the event stream

\* mpsc::channel(100): the capacity of the event channel.
ChannelCapacity == 100

\* session.id(): the id of the one session.
SessionId == "s1"

\* The subscriptions start no new call once this many messages were appended.
MaxStreamAppends == 2

\* AgentEvent::message_start
message_start(session_id) ==
    [type |-> "message_start", session_id |-> session_id, text |-> ""]

\* A faulty text_complete: the text is dropped.
text_complete_empty(text) ==
    [type |-> "text_complete", session_id |-> "", text |-> ""]

\* AgentEvent::text_complete
text_complete(text) ==
    [type |-> "text_complete", session_id |-> "", text |-> text]

\* AgentEvent::message_end
message_end(session_id) ==
    [type |-> "message_end", session_id |-> session_id, text |-> ""]

\* AgentEvent::error
error_event(message) ==
    [type |-> "error", session_id |-> "", text |-> message]

\* AgentEvent::is_end
is_end(e) == e.type \in {"message_end", "error"}

\* The Display of the LlmError the provider fails with (LlmError::Network).
LlmErrorText == "Network error: down"

\* AgentError's Display (e.to_string()) for the errors execute returns.
ErrorText(r) ==
    IF r.kind = "MaxIterationsReached"
    THEN "Max iterations reached: " \o ToString(r.n)
    ELSE "LLM error: " \o LlmErrorText

\* Agent::chat_stream: the channel is made and the task is spawned with a
\* clone of the session; the receiving end is handed to the subscriber.
ChatStream(p) ==
    /\ stream_pc \in {"none", "closed"}
    /\ pc[p] \in {"idle", "done"}
    /\ inner.stats.message_count < MaxStreamAppends
    /\ stream_pc' = "spawned"
    /\ chan' = <<>>
    /\ observed' = <<>>
    /\ pc' = [pc EXCEPT ![p] = "idle"]
    /\ result' = [result EXCEPT ![p] = NoResult]
    /\ UNCHANGED <<inner, appends, last_op, iterations, served, cur_uses,
                   tool_results, all_tool_calls, at_start, tools, sent,
                   tool_ctx, last_exec, libVars, srvVars>>

\* A faulty start of execute_stream: MessageStart is not sent.
SendMessageStartSkipped(p) ==
    /\ stream_pc = "spawned"
    /\ stream_pc' = "started"
    /\ UNCHANGED <<inner, appends, last_op, pc, iterations, served, cur_uses,
                   tool_results, all_tool_calls, result, at_start, tools,
                   sent, chan, observed, tool_ctx, last_exec, libVars, srvVars>>

\* execute_stream, first line: MessageStart is sent.
SendMessageStart(p) ==
    /\ stream_pc = "spawned"
    /\ Len(chan) < ChannelCapacity
    /\ chan' = Append(chan, message_start(SessionId))
    /\ stream_pc' = "started"
    /\ UNCHANGED <<inner, appends, last_op, pc, iterations, served, cur_uses,
                   tool_results, all_tool_calls, result, at_start, tools,
                   sent, observed, tool_ctx, last_exec, libVars, srvVars>>

\* execute_stream calls execute.
StreamEnter(p) ==
    /\ stream_pc = "started"
    /\ pc[p] = "idle"
    /\ Start(p, "Hi", MaxStreamAppends)

\* execute returned Ok: TextComplete is sent.
SendTextComplete(p) ==
    /\ stream_pc = "started"
    /\ pc[p] = "done"
    /\ result[p].kind = "ok"
    /\ Len(chan) < ChannelCapacity
    /\ chan' = Append(chan, text_complete(result[p].text))
    /\ stream_pc' = "text_sent"
    /\ UNCHANGED <<inner, appends, last_op, pc, iterations, served, cur_uses,
                   tool_results, all_tool_calls, result, at_start, tools,
                   sent, observed, tool_ctx, last_exec, libVars, srvVars>>

\* ... then MessageEnd; execute_stream returns and the sender is dropped.
SendMessageEnd(p) ==
    /\ stream_pc = "text_sent"
    /\ Len(chan) < ChannelCapacity
    /\ chan' = Append(chan, message_end(SessionId))
    /\ stream_pc' = "returned"
    /\ UNCHANGED <<inner, appends, last_op, pc, iterations, served, cur_uses,
                   tool_results, all_tool_calls, result, at_start, tools,
                   sent, observed, tool_ctx, last_exec, libVars, srvVars>>

\* execute returned Err(e): Error(e.to_string()) is sent; execute_stream
\* returns and the sender is dropped.
SendError(p) ==
    /\ stream_pc = "started"
    /\ pc[p] = "done"
    /\ result[p].kind \in {"MaxIterationsReached", "Llm"}
    /\ Len(chan) < ChannelCapacity
    /\ chan' = Append(chan, error_event(ErrorText(result[p])))
    /\ stream_pc' = "returned"
    /\ UNCHANGED <<inner, appends, last_op, pc, iterations, served, cur_uses,
                   tool_results, all_tool_calls, result, at_start, tools,
                   sent, observed, tool_ctx, last_exec, libVars, srvVars>>

\* The subscriber polls the ReceiverStream and gets the next event.
Recv ==
    /\ chan # <<>>
    /\ observed' = Append(observed, Head(chan))
    /\ chan' = Tail(chan)
    /\ UNCHANGED <<inner, appends, last_op, pc, iterations, served, cur_uses,
                   tool_results, all_tool_calls, result, at_start, tools,
                   sent, stream_pc, tool_ctx, last_exec, libVars, srvVars>>

\* The subscriber polls an empty channel whose sender is gone: the stream ends.
StreamEnds ==
    /\ chan = <<>>
    /\ stream_pc = "returned"
    /\ stream_pc' = "closed"
    /\ UNCHANGED <<inner, appends, last_op, pc, iterations, served, cur_uses,
                   tool_results, all_tool_calls, result, at_start, tools,
                   sent, chan, observed, tool_ctx, last_exec, libVars, srvVars>>

\* The steps of the task spawned by chat_stream.
TaskStep ==
    \/ SendMessageStart("p1")
    \/ StreamEnter("p1")
    \/ LoopHead("p1")
    \/ \E r \in ProviderResults : Complete("p1", r)
    \/ \E o \in ToolOutcomes : ExecuteTool("p1", o)
    \/ ToolsUnavailable("p1")
    \/ RecordToolResults("p1")
    \/ SendTextComplete("p1")
    \/ SendMessageEnd("p1")
    \/ SendError("p1")

\* The steps of the subscriber.
ConsumerStep == Recv \/ StreamEnds

NextStream == ChatStream("p1") \/ TaskStep \/ ConsumerStep

\* chat_stream subscriptions one after the other; the runtime keeps running
\* the spawned task, the provider and the tools return, and the subscriber
\* keeps polling.
SpecStream ==
    /\ InitAgent
    /\ [][NextStream]_vars
    /\ WF_vars(TaskStep)
    /\ WF_vars(ConsumerStep)

\* ------------------------------------------------- the request to the vendor

\* AgentConfig.max_context_messages (the default).
max_context_messages == 50

\* AgentConfig.system_prompt (the default, String::new()).
system_prompt == ""

\* OpenAiMessage; content is None, Some(Text) or Some(Parts).
OpenAiMessage(role, content, tool_calls, tool_call_id) ==
    [role |-> role, content |-> content, tool_calls |-> tool_calls,
     tool_call_id |-> tool_call_id]

\* OpenAiContent::Text
OpenAiText(t) == [kind |-> "text", text |-> t, parts |-> <<>>]

\* convert_content_parts: the text blocks become parts (no images here).
convert_content_parts(content) ==
    LET texts == SelectSeq(content, IsText) IN
    [kind |-> "parts", text |-> "",
     parts |-> [i \in 1..Len(texts) |-> texts[i].text]]

\* The tool_calls of an assistant message: one per ToolUse block.
OpenAiToolCalls(content) ==
    LET uses == SelectSeq(content, IsToolUse) IN
    [i \in 1..Len(uses) |->
        [id |-> uses[i].id, type |-> "function", name |-> uses[i].name]]

\* The record of one ToolResult: role tool, content
\* tr.content.unwrap_or_default(), tool_call_id tr.tool_use_id.
ToolRecord(tr) ==
    OpenAiMessage("tool", Some(OpenAiText(unwrap_or_default(tr.content))),
                  None, Some(tr.id))

\* The records one message is converted to.
ConvertMessage(msg) ==
    CASE msg.role = "system" -> <<>>
      [] msg.role = "user" ->
            <<OpenAiMessage("user",
                  Some(IF Len(msg.content) = 1 /\ IsText(msg.content[1])
                       THEN OpenAiText(msg.content[1].text)
                       ELSE convert_content_parts(msg.content)),
                  None, None)>>
      [] msg.role = "assistant" ->
            <<OpenAiMessage("assistant",
                  IF text_content(msg.content) = "" THEN None
                  ELSE Some(OpenAiText(text_content(msg.content))),
                  IF OpenAiToolCalls(msg.content) = <<>> THEN None
                  ELSE Some(OpenAiToolCalls(msg.content)),
                  None)>>
      [] OTHER ->
            LET trs == SelectSeq(msg.content, LAMBDA b : b.type = "tool_result")
            IN [i \in 1..Len(trs) |-> ToolRecord(trs[i])]

RECURSIVE ConvertAll(_)
ConvertAll(messages) ==
    IF messages = <<>> THEN <<>>
    ELSE ConvertMessage(Head(messages)) \o ConvertAll(Tail(messages))

\* OpenAiProvider::convert_messages
convert_messages(messages, system) ==
    (IF system = None THEN <<>>
     ELSE <<OpenAiMessage("system", Some(OpenAiText(system[1])), None, None)>>)
        \o ConvertAll(messages)

\* Executor::build_request: the last max_context_messages messages and the
\* system prompt.
build_request(s) ==
    [messages |-> last_messages(s, max_context_messages),
     system |-> Some(system_prompt)]

\* The records the provider sends for the request built from the session.
RequestRecords(s) ==
    convert_messages(build_request(s).messages, build_request(s).system)

\* ------------------------------------------------------------- observations

Log == messages_of(inner)

Stats == inner.stats

IsToolResult(b) == b.type = "tool_result"

\* The ToolUse ids of a message, in order.
UseIds(m) ==
    LET u == SelectSeq(m.content, IsToolUse) IN [i \in 1..Len(u) |-> u[i].id]

\* The ToolResult tool_use_ids of a message, in order.
ResultIds(m) ==
    LET u == SelectSeq(m.content, IsToolResult) IN [i \in 1..Len(u) |-> u[i].id]

SameSeq(a, b) == Len(a) = Len(b) /\ \A i \in 1..Len(a) : a[i] = b[i]

LastServed(p) == served[p][Len(served[p])]

AllToolUse(p) == \A i \in 1..Len(served[p]) : served[p][i] = "tool_use"

\* ------------------------------------------------------------------- claims

\* C1: a call whose k-th provider response (k <= max_iterations) is the first
\* without ToolUse blocks has ended successfully after exactly k provider
\* calls, and its AgentResponse reports iterations = k; every earlier response
\* of the call carried ToolUse blocks, and a call ends successfully only so.
C1_EndsAtFirstTextResponse ==
    \A p \in Procs :
        /\ \A i \in 1..(Len(served[p]) - 1) : served[p][i] = "tool_use"
        /\ (served[p] # <<>> /\ LastServed(p) = "text") =>
              /\ pc[p] = "done"
              /\ result[p].kind = "ok"
              /\ result[p].iterations = Len(served[p])
              /\ Len(served[p]) <= max_iterations
        /\ result[p].kind = "ok" => (served[p] # <<>> /\ LastServed(p) = "text")

\* C1 witness: a call that succeeded at its last allowed iteration.
C1_Witness ==
    \E p \in Procs :
        /\ result[p].kind = "ok"
        /\ max_iterations > 1
        /\ result[p].iterations = max_iterations
        /\ Len(served[p]) = max_iterations

\* C2 as stated: a call that fails with MaxIterationsReached(max_iterations)
\* has made exactly max_iterations + 1 provider requests.
C2_FailsAfterMaxPlusOneRequests ==
    \A p \in Procs :
        result[p].kind = "MaxIterationsReached" =>
            /\ result[p].n = max_iterations
            /\ Len(served[p]) = max_iterations + 1

\* C2 amended: a call whose provider always answers with ToolUse blocks fails
\* with MaxIterationsReached(max_iterations) after exactly max_iterations
\* provider requests (iteration max_iterations + 1 is rejected before any
\* request is made), and a call fails so only in that case.
C2_FailsAfterMaxRequests ==
    \A p \in Procs :
        /\ result[p].kind = "MaxIterationsReached" =>
              /\ result[p].n = max_iterations
              /\ Len(served[p]) = max_iterations
              /\ AllToolUse(p)
              /\ iterations[p] = max_iterations + 1
        /\ (pc[p] = "done" /\ AllToolUse(p)) =>
              result[p].kind = "MaxIterationsReached"

\* C2 witness: a call has failed with MaxIterationsReached.
C2_Witness ==
    \E p \in Procs :
        /\ pc[p] = "done"
        /\ result[p].kind = "MaxIterationsReached"
        /\ served[p] # <<>>

\* C3: when a call on a fresh session fails with MaxIterationsReached(n), the
\* log is one user message followed by n pairs of an assistant message with
\* ToolUse blocks and a tool message of ToolResult blocks, one per tool-use,
\* and nothing after them.
C3_LogAtMaxIterations ==
    \A p \in Procs :
        (result[p].kind = "MaxIterationsReached" /\ at_start[p].len = 0
            /\ at_start[p].stats = DefaultStats) =>
            LET n == result[p].n IN
            /\ Len(Log) = 1 + 2 * n
            /\ Log[1] = UserMessage("Hi")
            /\ \A j \in 1..n :
                  /\ Log[2 * j].role = "assistant"
                  /\ UseIds(Log[2 * j]) # <<>>
                  /\ Log[2 * j + 1].role = "tool"
                  /\ \A k \in 1..Len(Log[2 * j + 1].content) :
                        IsToolResult(Log[2 * j + 1].content[k])
                  /\ Len(Log[2 * j + 1].content) = Len(UseIds(Log[2 * j]))

\* C3 witness: the first call on the session failed with MaxIterationsReached
\* and the log ends with a tool message.
C3_Witness ==
    \E p \in Procs :
        /\ result[p].kind = "MaxIterationsReached"
        /\ at_start[p].len = 0
        /\ Len(Log) > 1
        /\ Log[Len(Log)].role = "tool"

\* C4 as stated: iteration_count never decreases, and when a call reports
\* MaxIterationsReached the session's iteration_count is at most
\* max_iterations + 1.
C4_CountWithinBoundWhenReported ==
    \A p \in Procs :
        /\ Stats.iteration_count >= at_start[p].stats.iteration_count
        /\ result[p].kind = "MaxIterationsReached" =>
              Stats.iteration_count <= max_iterations + 1

\* No step lowers iteration_count.
IterationCountGrows == inner'.stats.iteration_count >= inner.stats.iteration_count

\* C4 amended: iteration_count never decreases; when a call reports
\* MaxIterationsReached its own loop counter is max_iterations + 1 and the
\* session's iteration_count has grown by exactly max_iterations + 1 since the
\* call started, so it is max_iterations + 1 on a session whose count was 0
\* and larger on a session that served earlier calls.
C4_CountGrowsByMaxPlusOne ==
    /\ [][IterationCountGrows]_vars
    /\ [](\A p \in Procs :
            result[p].kind = "MaxIterationsReached" =>
                /\ iterations[p] = max_iterations + 1
                /\ Stats.iteration_count =
                       at_start[p].stats.iteration_count + max_iterations + 1)

\* C4 witness: MaxIterationsReached is reported on a session that had served
\* an earlier call, with iteration_count above max_iterations + 1.
C4_Witness ==
    \E p \in Procs :
        /\ result[p].kind = "MaxIterationsReached"
        /\ at_start[p].stats.iteration_count > 0
        /\ Stats.iteration_count > max_iterations + 1

\* C5: every iteration that executes tools adds exactly one assistant message
\* and then exactly one tool message to the log, and the tool message's
\* tool_use_ids are the assistant message's ToolUse ids, same length and
\* order, whatever each tool returned.
C5_ToolResultsMirrorToolUses ==
    /\ \A i \in 1..Len(Log) :
          Log[i].role = "tool" =>
              /\ i > 1
              /\ Log[i - 1].role = "assistant"
              /\ SameSeq(ResultIds(Log[i]), UseIds(Log[i - 1]))
              /\ Len(Log[i].content) = Len(UseIds(Log[i - 1]))
    /\ \A p \in Procs :
          /\ pc[p] \in {"tools", "record"} =>
                /\ Len(Log) = at_start[p].len + 2 * iterations[p]
                /\ Log[Len(Log)].role = "assistant"
                /\ SameSeq(UseIds(Log[Len(Log)]),
                           [i \in 1..Len(cur_uses[p]) |-> cur_uses[p][i].id])
          /\ (pc[p] = "loop" /\ iterations[p] > 0) =>
                /\ Len(Log) = at_start[p].len + 1 + 2 * iterations[p]
                /\ Log[Len(Log)].role = "tool"

\* C5 witness: an iteration with two tool-uses, one failed and one not, has
\* been recorded.
C5_Witness ==
    \E p \in Procs :
        /\ pc[p] = "loop"
        /\ iterations[p] > 0
        /\ Len(tool_results[p]) = 2
        /\ tool_results[p][1].is_error
        /\ ~tool_results[p][2].is_error
        /\ Log[Len(Log)].role = "tool"

\* C6: each tool-role message is immediately preceded in the log by the
\* assistant message that emitted the ToolUse ids it answers, also when
\* several process calls run concurrently on clones of the session.
C6_ToolFollowsItsAssistant ==
    \A i \in 1..Len(Log) :
        Log[i].role = "tool" =>
            /\ i > 1
            /\ Log[i - 1].role = "assistant"
            /\ \A k \in 1..Len(ResultIds(Log[i])) :
                  \E j \in 1..Len(UseIds(Log[i - 1])) :
                      UseIds(Log[i - 1])[j] = ResultIds(Log[i])[k]

\* (user (assistant tool)* assistant)*, read as a rule on neighbours.
StrictOrder(i) ==
    IF i = 1 THEN Log[i].role = "user"
    ELSE CASE Log[i].role = "user" -> Log[i - 1].role = "assistant"
           [] Log[i].role = "assistant" -> Log[i - 1].role \in {"user", "tool"}
           [] Log[i].role = "tool" -> Log[i - 1].role = "assistant"
           [] OTHER -> FALSE

\* C7 as stated: after sequential process calls, ended by a provider error or
\* MaxIterationsReached or not, the roles of the log are a prefix of a word of
\* (user (assistant tool)* assistant)*.
C7_CausalOrder == \A i \in 1..Len(Log) : StrictOrder(i)

\* (user (assistant tool)* assistant?)*, read as a rule on neighbours.
CallOrder(i) ==
    IF i = 1 THEN Log[i].role = "user"
    ELSE CASE Log[i].role = "user" -> TRUE
           [] Log[i].role = "assistant" -> Log[i - 1].role \in {"user", "tool"}
           [] Log[i].role = "tool" -> Log[i - 1].role = "assistant"
           [] OTHER -> FALSE

\* A step that appends a user message right after a user or a tool message.
UserAfterUserOrTool ==
    /\ Len(inner'.messages) = Len(Log) + 1
    /\ Log # <<>>
    /\ inner'.messages[Len(Log) + 1].role = "user"
    /\ Log[Len(Log)].role \in {"user", "tool"}

\* C7 amended: after sequential process calls by one caller the roles of the
\* log are a prefix of a word of (user (assistant tool)* assistant?)*: the
\* segment of a call that ended with a provider error or MaxIterationsReached
\* has no final assistant message, so a user message is next to an earlier
\* user message or follows a tool message exactly after such a call, and a
\* call that succeeded leaves an assistant message last.
C7_CausalOrderPerCall ==
    /\ [](\A i \in 1..Len(Log) : CallOrder(i))
    /\ [](\A p \in Procs :
            result[p].kind = "ok" =>
                (Log[Len(Log)].role = "assistant" /\ UseIds(Log[Len(Log)]) = <<>>))
    /\ [][UserAfterUserOrTool =>
            result["p1"].kind \in {"Llm", "MaxIterationsReached"}]_vars

\* C7 witness: a call that started after a failed one put a user message
\* right after a tool message.
C7_Witness ==
    \E i \in 2..Len(Log) : Log[i].role = "user" /\ Log[i - 1].role = "tool"

\* The places of the ToolUse blocks with this id before message i.
PriorUses(i, id) ==
    {<<j, k>> \in (1..(i - 1)) \X (1..3) :
        /\ k <= Len(Log[j].content)
        /\ IsToolUse(Log[j].content[k])
        /\ Log[j].content[k].id = id}

\* C8 as stated: every ToolResult.tool_use_id in the log corresponds to
\* exactly one ToolUse.id earlier in the log, after any process calls and
\* truncate_messages calls and for any provider responses.
C8_ExactlyOnePriorToolUse ==
    \A i \in 1..Len(Log) :
        \A k \in 1..Len(ResultIds(Log[i])) :
            Cardinality(PriorUses(i, ResultIds(Log[i])[k])) = 1

\* C8 amended: as long as truncate_messages has removed no message
\* (message_count = len(messages)), every ToolResult.tool_use_id in the log
\* is the id of at least one ToolUse earlier in the log; it may be the id of
\* several, since the provider may reuse an id across iterations.
C8_SomePriorToolUseUnlessTruncated ==
    Stats.message_count = Len(Log) =>
        \A i \in 1..Len(Log) :
            \A k \in 1..Len(ResultIds(Log[i])) :
                PriorUses(i, ResultIds(Log[i])[k]) # {}

\* C8 witness: nothing was removed and a ToolResult's id is the id of two
\* earlier ToolUse blocks.
C8_Witness ==
    /\ Stats.message_count = Len(Log)
    /\ \E i \in 1..Len(Log) :
          \E k \in 1..Len(ResultIds(Log[i])) :
              Cardinality(PriorUses(i, ResultIds(Log[i])[k])) = 2

\* C9 as stated: stats().message_count equals the length of messages() after
\* any add_message, add_messages, truncate_messages and clear.
C9_CountEqualsLength == Stats.message_count = Len(Log)

\* C9 amended: stats().message_count equals the number of messages appended
\* so far (add_message and add_messages bump it once per message; nothing
\* lowers it), so it is at least the length of messages() and exceeds it once
\* truncate_messages or clear has removed a message.
C9_CountIsTotalAppends ==
    /\ Stats.message_count = appends
    /\ Len(Log) <= Stats.message_count
    /\ (last_op.op \in {"truncate_messages", "clear"}
            /\ Len(Log) < last_op.len) => Len(Log) < Stats.message_count

\* C9 witness: after appends by both add_message and add_messages a
\* truncation has removed messages.
C9_Witness ==
    /\ last_op.op = "truncate_messages"
    /\ Len(Log) < last_op.len
    /\ Len(Log) > 0
    /\ appends > 2

\* What truncate_messages(max) is to do to a log.
NewestKept(before, after, max) ==
    IF Len(before) > max
    THEN /\ Len(after) = max
         /\ \A i \in 1..max : after[i] = before[Len(before) - max + i]
    ELSE after = before

\* C10: truncate_messages(max) on a log longer than max removes the oldest
\* len - max messages and keeps the newest max in order; on a shorter log it
\* changes nothing; in both cases the stats are unchanged.
C10_TruncateKeepsNewest ==
    [][last_op'.op = "truncate_messages" =>
          /\ NewestKept(Log, inner'.messages, last_op'.arg)
          /\ inner'.stats = Stats]_vars

\* C10 witness: a truncation to at least one message has removed messages
\* from a log whose messages differ.
C10_Witness ==
    /\ last_op.op = "truncate_messages"
    /\ last_op.arg > 0
    /\ last_op.len > last_op.arg
    /\ Len(Log) = last_op.arg
    /\ Stats.message_count > Len(Log)

\* The messages of the log that caller p appended, in log order.
OwnInLog(p) ==
    LET Mine(m) == \E k \in 1..Len(sent[p]) : sent[p][k] = m
    IN SelectSeq(Log, Mine)

\* How often message m is in the log.
Occurrences(m) == Cardinality({i \in 1..Len(Log) : Log[i] = m})

\* C11: with concurrent appenders calling add_message on clones of one
\* session, messages() holds every appended message exactly once and nothing
\* else, its length equals message_count, and the messages of each caller are
\* in that caller's program order.
C11_ConcurrentAppendsKept ==
    /\ \A p \in Procs : \A k \in 1..Len(sent[p]) : Occurrences(sent[p][k]) = 1
    /\ \A i \in 1..Len(Log) :
          \E p \in Procs : \E k \in 1..Len(sent[p]) : sent[p][k] = Log[i]
    /\ Len(Log) = Stats.message_count
    /\ message_count(inner) = Stats.message_count
    /\ \A p \in Procs : OwnInLog(p) = sent[p]

\* C11 witness: two callers' appends are interleaved in the log.
C11_Witness ==
    /\ \A p \in Procs : Len(sent[p]) >= 2
    /\ Len(Log) >= 4
    /\ Log[1] = sent["p1"][1]
    /\ Log[2] = sent["p2"][1]
    /\ Log[3] = sent["p1"][2]

\* The events of the subscription so far, received or still in the channel.
Emitted == observed \o chan

\* The terminal events among the received ones.
Terminals == {i \in 1..Len(observed) : is_end(observed[i])}

\* C12: every chat_stream subscription whose subscriber keeps reading, and
\* whose provider and tools return, gets MessageStart as its first event and
\* in the end exactly one terminal event (MessageEnd or Error), after which
\* the stream ends with no further event.
C12_OneTerminalThenEnd ==
    /\ [](observed # <<>> => observed[1].type = "message_start")
    /\ [](\A i \in Terminals : i = Len(observed) /\ i > 1)
    /\ [](stream_pc = "closed" => (Cardinality(Terminals) = 1 /\ chan = <<>>))
    /\ (stream_pc = "spawned" ~> stream_pc = "closed")

\* C12 witness: a stream has ended with Error as its one terminal event, after
\* an earlier subscription on the same session.
C12_Witness ==
    /\ stream_pc = "closed"
    /\ observed[Len(observed)].type = "error"
    /\ at_start["p1"].len > 0

\* C13: the events of execute_stream are exactly MessageStart(session id),
\* TextComplete(final response text), MessageEnd(session id) when the loop
\* succeeds and exactly MessageStart(session id), Error(error message) when it
\* fails; TextComplete and MessageEnd are never emitted on failure and Error
\* is never emitted on success.
C13_ExactEventSequence ==
    /\ stream_pc \in {"returned", "closed"} =>
          IF result["p1"].kind = "ok"
          THEN /\ Len(Emitted) = 3
               /\ Emitted[1] = [type |-> "message_start", session_id |-> SessionId, text |-> ""]
               /\ Emitted[2] = [type |-> "text_complete", session_id |-> "",
                                text |-> JoinText(Log[Len(Log)].content)]
               /\ Emitted[3] = [type |-> "message_end", session_id |-> SessionId, text |-> ""]
          ELSE /\ Len(Emitted) = 2
               /\ Emitted[1] = [type |-> "message_start", session_id |-> SessionId, text |-> ""]
               /\ Emitted[2].type = "error"
               /\ Emitted[2].text \in
                     {"Max iterations reached: " \o ToString(max_iterations),
                      "LLM error: Network error: down"}
               /\ (Emitted[2].text = "LLM error: Network error: down")
                     <=> (LastServed("p1") = "error")
    /\ \A i \in 1..Len(Emitted) :
          /\ Emitted[i].type \in {"text_complete", "message_end"} =>
                result["p1"].kind = "ok"
          /\ Emitted[i].type = "error" =>
                result["p1"].kind \in {"MaxIterationsReached", "Llm"}

\* C13 witness: a subscription whose loop used a tool has delivered its three
\* events with the final text.
C13_Witness ==
    /\ stream_pc = "closed"
    /\ Len(observed) = 3
    /\ observed[2].text = "Hello!"
    /\ Len(served["p1"]) > 1
    /\ result["p1"].kind = "ok"

\* The provider call of caller p fails in this step.
ProviderFails(p) ==
    /\ pc[p] = "llm"
    /\ Len(served'[p]) = Len(served[p]) + 1
    /\ served'[p][Len(served'[p])] = "error"

\* C14: when provider.complete fails in iteration i of a process call, the
\* call returns AgentError::Llm, makes no further provider or tool call, and
\* leaves the session as it was just before the failing provider call: the
\* user message and the assistant/tool pairs of the i - 1 completed iterations
\* stay in the log, nothing is rolled back or added.
C14_ProviderFailureKeepsSession ==
    /\ [][\A p \in Procs :
            ProviderFails(p) =>
                /\ inner' = inner
                /\ result'[p].kind = "Llm"
                /\ pc'[p] = "done"]_vars
    /\ [][\A p \in Procs :
            (result[p].kind = "Llm" /\ result'[p].kind = "Llm") =>
                /\ served'[p] = served[p]
                /\ tool_results'[p] = tool_results[p]
                /\ inner' = inner]_vars
    /\ [](\A p \in Procs :
            (pc[p] = "done" /\ served[p] # <<>> /\ LastServed(p) = "error") =>
                LET i == iterations[p]
                    base == at_start[p].len
                IN /\ result[p].kind = "Llm"
                   /\ Len(served[p]) = i
                   /\ Len(Log) = base + 1 + 2 * (i - 1)
                   /\ Log[base + 1] = UserMessage("Hi")
                   /\ \A j \in 1..(i - 1) :
                         /\ Log[base + 2 * j].role = "assistant"
                         /\ UseIds(Log[base + 2 * j]) # <<>>
                         /\ Log[base + 2 * j + 1].role = "tool"
                   /\ Stats.iteration_count = at_start[p].stats.iteration_count + i
                   /\ Stats.message_count = at_start[p].stats.message_count + 1 + 2 * (i - 1))

\* C14 witness: the provider failed in the second iteration of a call; the
\* user message and the first iteration's pair are the end of the log.
C14_Witness ==
    \E p \in Procs :
        /\ result[p].kind = "Llm"
        /\ iterations[p] = 2
        /\ Len(Log) = at_start[p].len + 3
        /\ Log[Len(Log)].role = "tool"

\* The last ToolExecutor::execute call was made with a registered tool.
ExecRegistered == last_exec.name \in RegisteredTools

\* C15: no per-tool failure is fatal to process: whatever
\* ToolExecutor::execute returns for a tool-use (NotFound, Cancelled, invalid
\* input, Timeout, an execution error, or an output with is_error = true),
\* the loop records a ToolResult with is_error = true for that tool-use id,
\* still dispatches the remaining tool-uses of the iteration, and goes on to
\* the next provider call; process never returns AgentError::Tool.
C15_ToolFailureNotFatal ==
    /\ [][\A p \in Procs :
            (pc[p] = "tools" /\ tools = "some"
                /\ tool_results'[p] # tool_results[p]
                /\ (~last_exec'.out.ok \/ last_exec'.out.is_error)) =>
                LET k == Len(tool_results[p]) + 1 IN
                /\ Len(tool_results'[p]) = k
                /\ tool_results'[p][k].is_error
                /\ tool_results'[p][k].output = last_exec'.out.content
                /\ pc'[p] = IF k < Len(cur_uses[p]) THEN "tools" ELSE "record"
                /\ result'[p] = NoResult]_vars
    /\ [][\A p \in Procs :
            pc[p] = "record" =>
                /\ pc'[p] = "loop"
                /\ result'[p] = NoResult
                /\ LET m == inner'.messages[Len(inner'.messages)] IN
                   /\ m.role = "tool"
                   /\ Len(m.content) = Len(cur_uses[p])
                   /\ \A k \in 1..Len(m.content) :
                         /\ m.content[k].id = cur_uses[p][k].id
                         /\ m.content[k].is_error = tool_results[p][k].is_error]_vars
    /\ [](\A p \in Procs :
            result[p].kind \in {"none", "ok", "MaxIterationsReached", "Llm"})

\* C15 witness: in one iteration the first tool-use named an unregistered tool
\* and the second, dispatched all the same, timed out; both are error results
\* in the log and the call went on to the next provider call.
C15_Witness ==
    \E p \in Procs :
        /\ pc[p] = "llm"
        /\ iterations[p] = 2
        /\ Len(tool_results[p]) = 2
        /\ tool_results[p][1].output = "Tool not found: noop"
        /\ last_exec.called
        /\ last_exec.out.err = "Timeout"
        /\ tool_results[p][2].output = "Timeout after 60000ms"
        /\ Log[Len(Log)].role = "tool"
        /\ \A k \in 1..2 : Log[Len(Log)].content[k].is_error

\* The last n records of the request built from the session now.
LastRecords(n) ==
    LET recs == RequestRecords(inner) IN
    SubSeq(recs, Len(recs) - n + 1, Len(recs))

\* C16: the text of a failed tool call reaches the model in the next provider
\* request: for every ToolResult of the tool message convert_messages emits
\* exactly one record with role tool and tool_call_id = tool_use_id, in the
\* original order, and its content carries the result text, also the error
\* text of a result with is_error = true.
C16_ToolResultTextDelivered ==
    \A p \in Procs :
        (pc[p] = "llm" /\ iterations[p] > 1) =>
            LET n == Len(cur_uses[p])
                recs == LastRecords(n)
            IN /\ Len(RequestRecords(inner)) >= n
               /\ \A k \in 1..n :
                     /\ recs[k].role = "tool"
                     /\ recs[k].tool_call_id = <<cur_uses[p][k].id>>
                     /\ recs[k].content # <<>>
                     /\ recs[k].content[1].text = tool_results[p][k].output

\* C17: a context whose deadline has passed is treated like a cancelled one:
\* ToolExecutor::execute called for a registered tool with a context whose
\* deadline has expired (token not cancelled) returns Cancelled.
C17_ExpiredDeadlineIsCancelled ==
    (last_exec.called /\ ExecRegistered /\ ~last_exec.ctx.cancelled
        /\ is_timeout(last_exec.ctx, last_exec.now)) =>
        (~last_exec.out.ok /\ last_exec.out.err = "Cancelled")

\* The text a ToolResult block carries, in content or in error.
ResultText(b) ==
    IF b.content # <<>> THEN b.content[1]
    ELSE IF b.error # <<>> THEN b.error[1] ELSE ""

\* The tool-use that the k-th result of tool message i answers.
AnsweredUse(i, k) == SelectSeq(Log[i - 1].content, IsToolUse)[k]

\* C18 as stated: when the registry is present but does not contain the tool
\* named by a tool-use, the loop records for it a ToolResult with is_error =
\* true whose text is "Tool execution not available: <name>".
C18_NotFoundTextNotAvailable ==
    \A i \in 2..Len(Log) :
        Log[i].role = "tool" =>
            \A k \in 1..Len(Log[i].content) :
                (tools = "some" /\ AnsweredUse(i, k).name \notin RegisteredTools) =>
                    /\ Log[i].content[k].is_error
                    /\ ResultText(Log[i].content[k]) =
                          "Tool execution not available: " \o AnsweredUse(i, k).name

\* C18 amended: when the registry is present but does not contain the tool
\* named by a tool-use, the loop records for it a ToolResult with is_error =
\* true whose text is the Display of ToolError::NotFound, "Tool not found:
\* <name>"; "Tool execution not available: <name>" is the text recorded when
\* the agent has no registry at all.
C18_NotFoundTextIsToolNotFound ==
    \A i \in 2..Len(Log) :
        Log[i].role = "tool" =>
            \A k \in 1..Len(Log[i].content) :
                /\ Log[i].content[k].id = AnsweredUse(i, k).id
                /\ (tools = "some" /\ AnsweredUse(i, k).name \notin RegisteredTools) =>
                      /\ Log[i].content[k].is_error
                      /\ Log[i].content[k].error =
                            <<"Tool not found: " \o AnsweredUse(i, k).name>>
                /\ tools = "none" =>
                      /\ Log[i].content[k].is_error
                      /\ Log[i].content[k].error =
                            <<"Tool execution not available: " \o AnsweredUse(i, k).name>>

\* C18 witness: with a registry that has no "noop", the result recorded for a
\* tool-use of "noop" is in the log, before a result of a registered tool.
C18_Witness ==
    /\ tools = "some"
    /\ \E i \in 2..Len(Log) :
          /\ Log[i].role = "tool"
          /\ Len(Log[i].content) = 2
          /\ AnsweredUse(i, 1).name = "noop"
          /\ Log[i].content[1].error = <<"Tool not found: noop">>
          /\ ~Log[i].content[2].is_error

\* C19: ToolExecutor::execute checks in the order lookup, cancellation,
\* validation, execution: with a cancelled context and a registered tool it
\* returns Cancelled without calling validate_input or tool.execute; with an
\* unregistered name it returns NotFound whether or not the context is
\* cancelled; when validate_input fails it returns that error without calling
\* tool.execute.
C19_CheckOrder ==
    last_exec.called =>
        LET e == last_exec
            Called(f) == \E j \in 1..Len(e.out.calls) : e.out.calls[j] = f
        IN /\ ~ExecRegistered =>
                 /\ e.out.err = "NotFound"
                 /\ ~Called("validate_input") /\ ~Called("execute")
           /\ (ExecRegistered /\ e.ctx.cancelled) =>
                 /\ e.out.err = "Cancelled"
                 /\ ~Called("validate_input") /\ ~Called("execute")
           /\ (ExecRegistered /\ ~e.ctx.cancelled /\ ~e.tool.valid) =>
                 /\ e.out.err = "InvalidInput"
                 /\ Called("validate_input") /\ ~Called("execute")
           /\ (ExecRegistered /\ ~e.ctx.cancelled /\ e.tool.valid) =>
                 e.out.calls = <<"get", "is_cancelled", "validate_input", "execute">>

\* C19 witness: an unregistered name with a cancelled context gave NotFound.
C19_Witness ==
    /\ last_exec.called
    /\ ~ExecRegistered
    /\ last_exec.ctx.cancelled
    /\ last_exec.out.err = "NotFound"
    /\ ~last_exec.tool.valid

\* min(ctx.remaining(), default_timeout) of the last call, default_timeout
\* when the context has no deadline.
EffectiveTimeout ==
    LET e == last_exec IN
    IF e.ctx.deadline = <<>> THEN e.default
    ELSE LET left == IF e.ctx.deadline[1] > e.now
                     THEN e.ctx.deadline[1] - e.now ELSE 0
         IN IF left < e.default THEN left ELSE e.default

\* C20: ToolExecutor::execute runs the tool under an effective timeout of
\* min(ctx.remaining(), default_timeout), default_timeout when the context
\* has no deadline; a tool that has not finished when it elapses gives
\* Timeout with that timeout in milliseconds, otherwise the tool's own result
\* is returned unchanged.
C20_EffectiveTimeout ==
    (last_exec.called /\ ExecRegistered /\ ~last_exec.ctx.cancelled
        /\ last_exec.tool.valid) =>
        LET e == last_exec IN
        /\ e.out.timeout = EffectiveTimeout
        /\ IF e.tool.duration > EffectiveTimeout
           THEN /\ ~e.out.ok
                /\ e.out.err = "Timeout"
                /\ e.out.content =
                      "Timeout after " \o ToString(EffectiveTimeout * 30000) \o "ms"
           ELSE CASE e.tool.result = "ok" ->
                        e.out.ok /\ e.out.content = "out" /\ ~e.out.is_error
                  [] e.tool.result = "business_error" ->
                        e.out.ok /\ e.out.content = "failed" /\ e.out.is_error
                  [] OTHER ->
                        ~e.out.ok /\ e.out.err = "ExecutionFailed"

\* C20 witness: the context's remaining time, shorter than default_timeout,
\* ran out on a tool that takes longer.
C20_Witness ==
    /\ last_exec.called
    /\ ExecRegistered
    /\ ~last_exec.ctx.cancelled
    /\ last_exec.ctx.deadline # <<>>
    /\ last_exec.now > 0
    /\ EffectiveTimeout > 0
    /\ EffectiveTimeout < last_exec.default
    /\ last_exec.tool.duration > EffectiveTimeout
    /\ last_exec.out.err = "Timeout"

\* ------------------------------------------------------------ context trees

\* Context::child is called until this many Contexts exist.
MaxContexts == 4

RECURSIVE TokenAncestors(_, _)
\* The tokens a CancellationToken descends from through child_token.
TokenAncestors(toks, t) ==
    IF toks[t].parent = 0 THEN {}
    ELSE {toks[t].parent} \cup TokenAncestors(toks, toks[t].parent)

\* CancellationToken::child_token: a new token under t, cancelled from the
\* start when t already is.
child_token(toks, t) ==
    Append(toks, [parent |-> t, cancelled |-> toks[t].cancelled])

\* CancellationToken::cancel: the token and every token under it.
token_cancel(toks, t) ==
    [k \in DOMAIN toks |->
        IF k = t \/ t \in TokenAncestors(toks, k)
        THEN [toks[k] EXCEPT !.cancelled = TRUE] ELSE toks[k]]

\* CancellationToken::is_cancelled
token_is_cancelled(toks, t) == toks[t].cancelled

\* A faulty child: the child holds a clone of its parent's token.
child_shares_token(ctx, toks) ==
    [ctx |-> [deadline |-> ctx.deadline, token |-> ctx.token], tokens |-> toks]

\* Context::child: the parent's deadline and a child of its token.
child(ctx, toks) ==
    [ctx |-> [deadline |-> ctx.deadline, token |-> Len(toks) + 1],
     tokens |-> child_token(toks, ctx.token)]

\* Context::new().with_deadline(d): the first Context gets its deadline
\* before anything is derived from it.
ContextWithDeadline(d) ==
    /\ Len(ctxs) = 1
    /\ ctxs[1].ctx.deadline = None
    /\ ~ctxs[1].cancel_called
    /\ clock = 0
    /\ ctxs' = [ctxs EXCEPT ![1].ctx = with_deadline(@, d)]
    /\ UNCHANGED agentVars
    /\ UNCHANGED <<tokens, clock, tool_trace, agg, pushed, vendor, registered,
                   last_call>>

\* ctxs[i].child() is called and the child is kept.
ContextChild(i) ==
    /\ Len(ctxs) < MaxContexts
    /\ LET r == child(ctxs[i].ctx, tokens)
       IN /\ ctxs' = Append(ctxs, [ctx |-> r.ctx, from |-> i,
                                   cancel_called |-> FALSE])
          /\ tokens' = r.tokens
    /\ UNCHANGED agentVars
    /\ UNCHANGED <<clock, tool_trace, agg, pushed, vendor, registered, last_call>>

\* ctxs[i].cancel() is called.
ContextCancel(i) ==
    /\ ~ctxs[i].cancel_called
    /\ tokens' = token_cancel(tokens, ctxs[i].ctx.token)
    /\ ctxs' = [ctxs EXCEPT ![i].cancel_called = TRUE]
    /\ UNCHANGED agentVars
    /\ UNCHANGED <<clock, tool_trace, agg, pushed, vendor, registered, last_call>>

\* Time passes: Timestamp::now() only moves forward.
ClockTick ==
    /\ clock < MaxTime
    /\ clock' = clock + 1
    /\ UNCHANGED agentVars
    /\ UNCHANGED <<ctxs, tokens, tool_trace, agg, pushed, vendor, registered,
                   last_call>>

NextContext ==
    \/ \E d \in 0..MaxTime : ContextWithDeadline(d)
    \/ \E i \in DOMAIN ctxs : ContextChild(i)
    \/ \E i \in DOMAIN ctxs : ContextCancel(i)
    \/ ClockTick

\* Contexts derived from one another, cancelled one by one, while time passes.
SpecContext == Init /\ [][NextContext]_vars

RECURSIVE DerivedFrom(_)
\* The Contexts ctxs[d] was derived from by one or more child() calls.
DerivedFrom(d) ==
    IF ctxs[d].from = 0 THEN {}
    ELSE {ctxs[d].from} \cup DerivedFrom(ctxs[d].from)

\* ctxs[i].is_cancelled()
CtxCancelled(i) == token_is_cancelled(tokens, ctxs[i].ctx.token)

\* C21: a Context derived by child() calls has the deadline of the one it was
\* derived from and is cancelled once that one's cancel() was called; a
\* Context is cancelled only when cancel() was called on itself or on one it
\* was derived from, so cancelling a child reaches neither parent nor sibling.
C21_ChildInheritsOneWay ==
    \A d \in DOMAIN ctxs :
        /\ \A c \in DerivedFrom(d) :
              /\ ctxs[d].ctx.deadline = ctxs[c].ctx.deadline
              /\ ctxs[c].cancel_called => CtxCancelled(d)
        /\ CtxCancelled(d) =>
              \E a \in DerivedFrom(d) \cup {d} : ctxs[a].cancel_called

\* C21 witness: 1 -> 2 -> 3 and 1 -> 4 with a deadline; cancel() was called
\* on 2 only, so 2 and 3 are cancelled, 1 and 4 are not.
C21_Witness ==
    /\ Len(ctxs) = 4
    /\ ctxs[2].from = 1 /\ ctxs[3].from = 2 /\ ctxs[4].from = 1
    /\ ctxs[3].ctx.deadline = Some(2)
    /\ ctxs[2].cancel_called
    /\ ~ctxs[1].cancel_called /\ ~ctxs[3].cancel_called /\ ~ctxs[4].cancel_called
    /\ CtxCancelled(2) /\ CtxCancelled(3)
    /\ ~CtxCancelled(1) /\ ~CtxCancelled(4)

\* remaining() of a Context with a deadline, as a number.
RemainingAt(i, now) == remaining(ctxs[i].ctx, now)[1]

\* C22: on a Context with a deadline remaining() never grows from one moment
\* to the next and is zero whenever is_timeout() is true; without a deadline
\* is_timeout() is false and remaining() is absent.
C22_RemainingNeverGrows ==
    /\ [](\A i \in DOMAIN ctxs :
            IF ctxs[i].ctx.deadline = None
            THEN ~is_timeout(ctxs[i].ctx, clock)
                    /\ remaining(ctxs[i].ctx, clock) = None
            ELSE /\ remaining(ctxs[i].ctx, clock) # None
                 /\ RemainingAt(i, clock) >= 0
                 /\ is_timeout(ctxs[i].ctx, clock) => RemainingAt(i, clock) = 0)
    /\ [][\A i \in DOMAIN ctxs :
            ctxs[i].ctx.deadline # None =>
                remaining(ctxs'[i].ctx, clock')[1] <= RemainingAt(i, clock)]_vars

\* C22 witness: a derived Context whose deadline has passed, next to a root
\* that passed it too.
C22_Witness ==
    /\ Len(ctxs) >= 2
    /\ ctxs[2].ctx.deadline = Some(1)
    /\ clock = 3
    /\ is_timeout(ctxs[2].ctx, clock)
    /\ remaining(ctxs[2].ctx, clock) = Some(0)

\* ------------------------------------------- the tools of one execute_tools

\* The number of events of one kind in a trace.
CountEvents(trace, ev) == Len(SelectSeq(trace, LAMBDA e : e.ev = ev))

\* The starts and ends of the execute_tools call that is under way: what is
\* left from an earlier call is dropped when a new one begins.
TraceOfCall(p) ==
    IF tool_results[p] = <<>> /\ CountEvents(tool_trace, "end") # 0
    THEN <<>> ELSE tool_trace

\* A faulty loop: the next tools.execute is called without awaiting the one
\* before.
BeginToolUnawaited(p) ==
    /\ pc[p] = "tools"
    /\ tools = "some"
    /\ LET trace == TraceOfCall(p)
           started == CountEvents(trace, "start")
       IN /\ started < Len(cur_uses[p])
          /\ tool_trace' = Append(trace, [ev |-> "start",
                                          id |-> cur_uses[p][started + 1].id])
    /\ UNCHANGED agentVars
    /\ UNCHANGED <<ctxs, tokens, clock, agg, pushed, vendor, registered, last_call>>

\* The for loop of execute_tools reaches the next tool-use and calls
\* tools.execute(..).await: every earlier round has pushed its result.
BeginTool(p) ==
    /\ pc[p] = "tools"
    /\ tools = "some"
    /\ LET trace == TraceOfCall(p)
           started == CountEvents(trace, "start")
       IN /\ started < Len(cur_uses[p])
          /\ started = Len(tool_results[p])
          /\ tool_trace' = Append(trace, [ev |-> "start",
                                          id |-> cur_uses[p][started + 1].id])
    /\ UNCHANGED agentVars
    /\ UNCHANGED <<ctxs, tokens, clock, agg, pushed, vendor, registered, last_call>>

\* tools.execute returns for the oldest tool-use still running and its result
\* is pushed.
FinishTool(p, tool) ==
    /\ CountEvents(TraceOfCall(p), "start") > Len(tool_results[p])
    /\ DispatchEffects(p, tool)
    /\ tool_trace' = Append(tool_trace,
            [ev |-> "end", id |-> cur_uses[p][Len(tool_results[p]) + 1].id])
    /\ UNCHANGED <<ctxs, tokens, clock, agg, pushed, vendor, registered, last_call>>
    /\ UNCHANGED srvVars

NextToolSeq ==
    \/ Start("p1", "Hi", MaxToolAppends)
    \/ LoopHead("p1")
    \/ \E r \in ToolProviderResults : Complete("p1", r)
    \/ BeginTool("p1")
    \/ \E tool \in LoopToolBehaviours : FinishTool("p1", tool)
    \/ ToolsUnavailable("p1")
    \/ RecordToolResults("p1")

\* As SpecTools, with the start and the end of every tool call as steps of
\* their own.
SpecToolSeq == InitAgent /\ [][NextToolSeq]_vars

\* C23: within one execute_tools call the tools run one after the other in
\* the order of the tool-uses: the trace is start, end, start, end, ... of
\* the tool-uses in emitted order, a tool starts only when every earlier
\* result was pushed, and at most one is running (without a registry no
\* tool runs at all).
C23_ToolsRunInSequence ==
    (tools = "some" /\ pc["p1"] \in {"tools", "record"}) =>
        LET trace == TraceOfCall("p1") IN
        /\ \A k \in DOMAIN trace :
              /\ trace[k].ev = IF k % 2 = 1 THEN "start" ELSE "end"
              /\ (k + 1) \div 2 <= Len(cur_uses["p1"])
              /\ trace[k].id = cur_uses["p1"][(k + 1) \div 2].id
        /\ CountEvents(trace, "start") - CountEvents(trace, "end") \in {0, 1}
        /\ CountEvents(trace, "end") = Len(tool_results["p1"])

\* C23 witness: of two tool-uses the first has ended and its result is
\* recorded, the second is running.
C23_Witness ==
    /\ pc["p1"] = "tools"
    /\ Len(cur_uses["p1"]) = 2
    /\ tool_trace = <<[ev |-> "start", id |-> "c"], [ev |-> "end", id |-> "c"],
                      [ev |-> "start", id |-> "d"]>>
    /\ Len(tool_results["p1"]) = 1
    /\ tool_results["p1"][1].output = "Tool not found: noop"

\* ------------------------------------------------------ the StreamAggregator

\* Chunks are pushed into one aggregator until this many were pushed since
\* new() or clear().
MaxPushes == 3

\* The fields of every StreamChunk variant, empty.
BlankChunk ==
    [type |-> "", message_id |-> "", text |-> "", id |-> "", name |-> "",
     input_delta |-> "", index |-> 0, stop_reason |-> None,
     input_tokens |-> 0, output_tokens |-> 0, code |-> "", message |-> ""]

\* StreamChunk::MessageStart
MessageStart(message_id) ==
    [BlankChunk EXCEPT !.type = "MessageStart", !.message_id = message_id]

\* StreamChunk::TextDelta
TextDelta(text) == [BlankChunk EXCEPT !.type = "TextDelta", !.text = text]

\* StreamChunk::ToolUseStart
ToolUseStart(id, name) ==
    [BlankChunk EXCEPT !.type = "ToolUseStart", !.id = id, !.name = name]

\* StreamChunk::ToolUseDelta
ToolUseDelta(id, input_delta) ==
    [BlankChunk EXCEPT !.type = "ToolUseDelta", !.id = id,
                       !.input_delta = input_delta]

\* StreamChunk::ToolUseEnd
ToolUseEnd(id) == [BlankChunk EXCEPT !.type = "ToolUseEnd", !.id = id]

\* StreamChunk::ContentBlockStart
ContentBlockStart(index) ==
    [BlankChunk EXCEPT !.type = "ContentBlockStart", !.index = index]

\* StreamChunk::ContentBlockEnd
ContentBlockEnd(index) ==
    [BlankChunk EXCEPT !.type = "ContentBlockEnd", !.index = index]

\* StreamChunk::MessageEnd, stop_reason an Option<StopReason>
MessageEnd(stop_reason) ==
    [BlankChunk EXCEPT !.type = "MessageEnd", !.stop_reason = stop_reason]

\* StreamChunk::Usage
Usage(input_tokens, output_tokens) ==
    [BlankChunk EXCEPT !.type = "Usage", !.input_tokens = input_tokens,
                       !.output_tokens = output_tokens]

\* StreamChunk::Error
ErrorChunk(code, message) ==
    [BlankChunk EXCEPT !.type = "Error", !.code = code, !.message = message]

\* StreamChunk::Ping
Ping == [BlankChunk EXCEPT !.type = "Ping"]

\* The chunks pushed here: every variant, two tool-use ids, MessageEnd with
\* and without a stop_reason.
StreamChunks ==
    {MessageStart("m1"), TextDelta("Hel"), TextDelta("lo"),
     ToolUseStart("t1", "echo"), ToolUseStart("t2", "echo"),
     ToolUseDelta("t1", "{"), ToolUseDelta("t2", "}"), ToolUseEnd("t1"),
     ContentBlockStart(0), ContentBlockEnd(0),
     MessageEnd(None), MessageEnd(Some("end_turn")),
     Usage(1, 2), ErrorChunk("overloaded", "boom"), Ping}

\* tool_uses.iter_mut().find(|t| t.id == id): the first builder with this id.
FindToolUse(tool_uses, id) ==
    CHOOSE i \in DOMAIN tool_uses :
        /\ tool_uses[i].id = id
        /\ \A j \in 1..(i - 1) : tool_uses[j].id # id

\* A faulty ToolUseDelta arm: a delta with an unknown id opens a builder.
push_tool_use_delta_opens(a, chunk) ==
    IF \E i \in DOMAIN a.tool_uses : a.tool_uses[i].id = chunk.id
    THEN [a EXCEPT !.tool_uses[FindToolUse(a.tool_uses, chunk.id)].input_json =
                        @ \o chunk.input_delta]
    ELSE [a EXCEPT !.tool_uses = Append(@,
            [id |-> chunk.id, name |-> "", input_json |-> chunk.input_delta])]

\* StreamAggregator::push, the ToolUseDelta arm: push_str on the builder
\* found, nothing when none has the id.
push_tool_use_delta(a, chunk) ==
    IF \E i \in DOMAIN a.tool_uses : a.tool_uses[i].id = chunk.id
    THEN [a EXCEPT !.tool_uses[FindToolUse(a.tool_uses, chunk.id)].input_json =
                        @ \o chunk.input_delta]
    ELSE a

\* StreamAggregator::push
push(a, chunk) ==
    CASE chunk.type = "MessageStart" ->
            [a EXCEPT !.message_id = Some(chunk.message_id)]
      [] chunk.type = "TextDelta" ->
            [a EXCEPT !.text_buffer = @ \o chunk.text]
      [] chunk.type = "ToolUseStart" ->
            [a EXCEPT !.tool_uses = Append(@,
                [id |-> chunk.id, name |-> chunk.name, input_json |-> ""])]
      [] chunk.type = "ToolUseDelta" -> push_tool_use_delta(a, chunk)
      [] chunk.type = "MessageEnd" ->
            [a EXCEPT !.stop_reason = chunk.stop_reason]
      [] chunk.type = "Usage" ->
            [a EXCEPT !.input_tokens = chunk.input_tokens,
                      !.output_tokens = chunk.output_tokens]
      [] chunk.type = "Error" ->
            [a EXCEPT !.error = Some(<<chunk.code, chunk.message>>)]
      [] OTHER -> a

\* StreamAggregator::is_complete
is_complete(a) == a.stop_reason # None

\* StreamAggregator::has_error
has_error(a) == a.error # None

\* A faulty clear: the token counters survive.
clear_keeps_usage(a) ==
    [AggregatorNew EXCEPT !.input_tokens = a.input_tokens,
                          !.output_tokens = a.output_tokens]

\* StreamAggregator::clear: *self = Self::default()
clear_aggregator(a) == AggregatorNew

\* aggregator.push(chunk)
AggPush(chunk) ==
    /\ Len(pushed) < MaxPushes
    /\ agg' = push(agg, chunk)
    /\ pushed' = Append(pushed, chunk)
    /\ last_call' = [fn |-> "push"]
    /\ UNCHANGED agentVars
    /\ UNCHANGED <<ctxs, tokens, clock, tool_trace, vendor, registered>>

\* aggregator.clear()
AggClear ==
    /\ pushed # <<>>
    /\ agg' = clear_aggregator(agg)
    /\ pushed' = <<>>
    /\ last_call' = [fn |-> "clear", before |-> agg]
    /\ UNCHANGED agentVars
    /\ UNCHANGED <<ctxs, tokens, clock, tool_trace, vendor, registered>>

NextAggregator ==
    \/ \E chunk \in StreamChunks : AggPush(chunk)
    \/ AggClear

\* One StreamAggregator fed chunk by chunk and cleared now and then.
SpecAggregator == Init /\ [][NextAggregator]_vars

RECURSIVE PushAll(_, _)
\* The aggregator after the chunks of a sequence were pushed in order.
PushAll(a, chunks) ==
    IF chunks = <<>> THEN a
    ELSE PushAll(push(a, Head(chunks)), Tail(chunks))

\* C24: is_complete() is true once any MessageEnd chunk was pushed, with or
\* without a stop_reason, and false before any MessageEnd.
C24_CompleteOnceMessageEnd ==
    is_complete(agg) <=> \E i \in DOMAIN pushed : pushed[i].type = "MessageEnd"

\* C25: a ToolUseDelta with an unknown id leaves the aggregator as it was;
\* one with the id of a started tool-use appends its input_delta to the
\* buffer of one tool-use with that id and changes nothing else; Ping,
\* ContentBlockStart, ContentBlockEnd and ToolUseEnd leave it as it was.
C25_DeltaFrame ==
    [][\A chunk \in StreamChunks :
        pushed' = Append(pushed, chunk) =>
            CASE chunk.type = "ToolUseDelta" ->
                    IF \A i \in DOMAIN agg.tool_uses :
                            agg.tool_uses[i].id # chunk.id
                    THEN agg' = agg
                    ELSE \E i \in DOMAIN agg.tool_uses :
                            /\ agg.tool_uses[i].id = chunk.id
                            /\ agg' = [agg EXCEPT !.tool_uses[i].input_json =
                                            @ \o chunk.input_delta]
              [] chunk.type \in {"Ping", "ContentBlockStart",
                                 "ContentBlockEnd", "ToolUseEnd"} ->
                    agg' = agg
              [] OTHER -> TRUE]_vars

\* C25 witness: after ToolUseStart t1 a delta for the unknown t2 was dropped
\* and a delta for t1 reached t1's buffer.
C25_Witness ==
    /\ pushed = <<ToolUseStart("t1", "echo"), ToolUseDelta("t2", "}"),
                  ToolUseDelta("t1", "{")>>
    /\ agg.tool_uses = <<[id |-> "t1", name |-> "echo", input_json |-> "{"]>>

\* C26: what the aggregator holds is what pushing, into a fresh aggregator,
\* the concatenation of everything pushed since new() or clear() gives, and
\* right after clear() it is the fresh aggregator.
C26_PushFoldsAndClearResets ==
    /\ agg = PushAll(AggregatorNew, pushed)
    /\ last_call.fn = "clear" =>
          /\ agg = AggregatorNew
          /\ ~is_complete(agg) /\ ~has_error(agg)

\* C26 witness: an aggregator that held text, a stop_reason and token counts
\* was cleared.
C26_Witness ==
    /\ last_call.fn = "clear"
    /\ last_call.before.text_buffer = "Hel"
    /\ last_call.before.stop_reason = Some("end_turn")
    /\ last_call.before.input_tokens = 1
    /\ agg = AggregatorNew

\* ------------------------------------------------------- the vendor stream

\* A vendor stream delivers up to this many events.
MaxVendorEvents == 3

\* A "data: {json}" line that parses as OpenAiStreamEvent with one choice.
DataEvent(content, tool_calls, finish_reason) ==
    [kind |-> "data", content |-> content, tool_calls |-> tool_calls,
     finish_reason |-> finish_reason]

\* The "data: [DONE]" line.
DoneEvent == [DataEvent(None, <<>>, None) EXCEPT !.kind = "done"]

\* A line that is no "data: " line or does not parse: it is skipped.
UnparsedEvent == [DataEvent(None, <<>>, None) EXCEPT !.kind = "unparsed"]

\* bytes_stream.next() returns Some(Err(..)).
TransportError == [DataEvent(None, <<>>, None) EXCEPT !.kind = "transport_error"]

\* What the vendor may send: text, the first event of a tool call (id and
\* name), a continuation (arguments, no id), a finish_reason, text together
\* with a finish_reason, [DONE], an unreadable line, a transport error.
VendorEvents ==
    {DataEvent(Some("Hi"), <<>>, None),
     DataEvent(None, <<[id |-> Some("t1"), name |-> Some("echo"),
                        arguments |-> None]>>, None),
     DataEvent(None, <<[id |-> None, name |-> None,
                        arguments |-> Some("{}")]>>, None),
     DataEvent(None, <<>>, Some("stop")),
     DataEvent(None, <<>>, Some("tool_calls")),
     DataEvent(Some("!"), <<>>, Some("length")),
     DoneEvent, UnparsedEvent, TransportError}

\* match finish_reason.as_str()
StopReasonOf(finish_reason) ==
    CASE finish_reason = "stop" -> "end_turn"
      [] finish_reason = "length" -> "max_tokens"
      [] finish_reason = "tool_calls" -> "tool_use"
      [] OTHER -> "end_turn"

\* The stream's item Err(LlmError::Stream(..)): an error of the stream, not a
\* StreamChunk.
StreamErr(message) ==
    [BlankChunk EXCEPT !.type = "Err", !.message = "Stream error: " \o message]

RECURSIVE ToolCallChunks(_)
\* for tc in tool_calls: ToolUseStart when the function has a name,
\* ToolUseDelta when it has arguments, both with tc.id or "".
ToolCallChunks(tool_calls) ==
    IF tool_calls = <<>> THEN <<>>
    ELSE LET tc == Head(tool_calls)
         IN (IF tc.name # None
             THEN <<ToolUseStart(unwrap_or_default(tc.id), tc.name[1])>>
             ELSE <<>>)
            \o (IF tc.arguments # None
                THEN <<ToolUseDelta(unwrap_or_default(tc.id), tc.arguments[1])>>
                ELSE <<>>)
            \o ToolCallChunks(Tail(tool_calls))

\* What one vendor event makes the stream yield, and whether the stream is
\* over after it.
EventChunks(event) ==
    CASE event.kind = "transport_error" ->
            [chunks |-> <<StreamErr("reset")>>, ends |-> TRUE]
      [] event.kind = "done" ->
            [chunks |-> <<MessageEnd(Some("end_turn"))>>, ends |-> TRUE]
      [] event.kind = "data" ->
            [chunks |->
                (IF event.content # None
                 THEN <<TextDelta(event.content[1])>> ELSE <<>>)
                \o ToolCallChunks(event.tool_calls)
                \o (IF event.finish_reason # None
                    THEN <<MessageEnd(Some(StopReasonOf(event.finish_reason[1])))>>
                    ELSE <<>>),
             ends |-> FALSE]
      [] OTHER -> [chunks |-> <<>>, ends |-> FALSE]

\* complete_stream got a success status: the stream opens with MessageStart.
CompleteStreamOpens ==
    /\ vendor.state = "none"
    /\ vendor' = [events |-> <<>>, chunks |-> <<MessageStart("m1")>>,
                  state |-> "open"]
    /\ UNCHANGED agentVars
    /\ UNCHANGED <<ctxs, tokens, clock, tool_trace, agg, pushed, registered,
                   last_call>>

\* complete_stream got another status: Err(LlmError::Api), no stream.
CompleteStreamRefused ==
    /\ vendor.state = "none"
    /\ vendor' = [events |-> <<>>, chunks |-> <<>>, state |-> "refused"]
    /\ UNCHANGED agentVars
    /\ UNCHANGED <<ctxs, tokens, clock, tool_trace, agg, pushed, registered,
                   last_call>>

\* The next event arrives and its chunks are yielded.
VendorEvent(event) ==
    /\ vendor.state = "open"
    /\ Len(vendor.events) < MaxVendorEvents
    /\ LET r == EventChunks(event)
       IN vendor' = [events |-> Append(vendor.events, event),
                     chunks |-> vendor.chunks \o r.chunks,
                     state |-> IF r.ends THEN "ended" ELSE "open"]
    /\ UNCHANGED agentVars
    /\ UNCHANGED <<ctxs, tokens, clock, tool_trace, agg, pushed, registered,
                   last_call>>

\* bytes_stream.next() returns None: the while loop and the stream end.
VendorCloses ==
    /\ vendor.state = "open"
    /\ vendor' = [vendor EXCEPT !.state = "ended"]
    /\ UNCHANGED agentVars
    /\ UNCHANGED <<ctxs, tokens, clock, tool_trace, agg, pushed, registered,
                   last_call>>

\* The consumer is done with the stream.
StreamDropped ==
    /\ vendor.state \in {"ended", "refused"}
    /\ vendor' = NoVendor
    /\ UNCHANGED agentVars
    /\ UNCHANGED <<ctxs, tokens, clock, tool_trace, agg, pushed, registered,
                   last_call>>

NextVendor ==
    \/ CompleteStreamOpens
    \/ CompleteStreamRefused
    \/ \E event \in VendorEvents : VendorEvent(event)
    \/ VendorCloses
    \/ StreamDropped

\* complete_stream calls, one stream at a time, against any vendor.
SpecVendor == Init /\ [][NextVendor]_vars

\* StreamChunk::MessageEnd or StreamChunk::Error
IsTerminalChunk(chunk) == chunk.type \in {"MessageEnd", "Error"}

\* C27: the chunks of a stream begin with MessageStart, hold at most one
\* terminal chunk (MessageEnd or Error) with nothing after it, and a stream
\* that is over, however the vendor ended it, ends with a terminal chunk.
C27_OneTerminalChunk ==
    vendor.state \in {"open", "ended"} =>
        LET chunks == vendor.chunks IN
        /\ chunks # <<>>
        /\ chunks[1].type = "MessageStart"
        /\ \A i \in DOMAIN chunks : IsTerminalChunk(chunks[i]) => i = Len(chunks)
        /\ vendor.state = "ended" => IsTerminalChunk(chunks[Len(chunks)])

\* ------------------------------------------------- the registry of tools

\* The names tools are registered under.
ToolNames == {"echo", "shell"}

\* The tools there are to register: under each name harmless and dangerous
\* ones, one that answers and one that fails.
Tools ==
    {[name |-> n, dangerous |-> d, behaviour |-> b] :
        n \in ToolNames, d \in BOOLEAN,
        b \in {[valid |-> TRUE, duration |-> 0, result |-> "ok", cancels |-> FALSE],
               [valid |-> TRUE, duration |-> 1, result |-> "failed", cancels |-> FALSE]}}

\* ToolRegistry::contains
contains(tools_map, name) == name \in DOMAIN tools_map

\* ToolRegistry::get
get(tools_map, name) ==
    IF name \in DOMAIN tools_map THEN Some(tools_map[name]) ELSE None

\* ToolRegistry::len
len(tools_map) == Cardinality(DOMAIN tools_map)

\* A faulty register: the duplicate is refused but has replaced the tool.
register_replaces(tools_map, tool) ==
    [ok |-> tool.name \notin DOMAIN tools_map,
     err |-> IF tool.name \in DOMAIN tools_map THEN "AlreadyRegistered" ELSE "",
     tools |-> [n \in DOMAIN tools_map \cup {tool.name} |->
                    IF n = tool.name THEN tool ELSE tools_map[n]]]

\* ToolRegistry::register
register(tools_map, tool) ==
    IF tool.name \in DOMAIN tools_map
    THEN [ok |-> FALSE, err |-> "AlreadyRegistered", tools |-> tools_map]
    ELSE [ok |-> TRUE, err |-> "",
          tools |-> [n \in DOMAIN tools_map \cup {tool.name} |->
                        IF n = tool.name THEN tool ELSE tools_map[n]]]

\* ToolRegistry::unregister: HashMap::remove
unregister(tools_map, name) ==
    [removed |-> get(tools_map, name),
     tools |-> [n \in DOMAIN tools_map \ {name} |-> tools_map[n]]]

\* ToolExecutor::new(registry), with or without
\* allow_dangerous_without_confirmation()
ToolExecutorOf(tools_map, require_confirmation) ==
    [registry |-> tools_map, default_timeout |-> default_timeout,
     require_confirmation_for_dangerous |-> require_confirmation]

\* ToolExecutor::is_dangerous
is_dangerous(executor, name) ==
    IF get(executor.registry, name) = None THEN FALSE
    ELSE get(executor.registry, name)[1].dangerous

\* ToolExecutor::needs_confirmation
needs_confirmation(executor, name) ==
    executor.require_confirmation_for_dangerous /\ is_dangerous(executor, name)

\* What the registered tool does when called; for a name that is not
\* registered nothing is ever called.
BehaviourOf(tools_map, name) ==
    IF name \in DOMAIN tools_map THEN tools_map[name].behaviour
    ELSE [valid |-> TRUE, duration |-> 0, result |-> "ok", cancels |-> FALSE]

\* A faulty execute: a tool that needs confirmation is refused.
executor_execute_confirms(executor, ctx, now, name) ==
    IF needs_confirmation(executor, name)
    THEN ErrOutput("PermissionDenied", "Permission denied: " \o name, <<"get">>, 0, 0)
    ELSE execute(DOMAIN executor.registry, executor.default_timeout, ctx, now,
                 name, BehaviourOf(executor.registry, name))

\* ToolExecutor::execute on an executor with its registry: neither the
\* tool's dangerous flag nor require_confirmation_for_dangerous is read.
executor_execute(executor, ctx, now, name) ==
    execute(DOMAIN executor.registry, executor.default_timeout, ctx, now,
            name, BehaviourOf(executor.registry, name))

\* The registry with the dangerous flag of one tool set.
WithDangerous(tools_map, name, dangerous) ==
    [n \in DOMAIN tools_map |->
        IF n = name THEN [tools_map[n] EXCEPT !.dangerous = dangerous]
        ELSE tools_map[n]]

\* registry.register(tool)
RegistryRegister(tool) ==
    /\ LET r == register(registered, tool)
       IN /\ registered' = r.tools
          /\ last_call' = [fn |-> "register", tool |-> tool, name |-> tool.name,
                           before |-> registered, ok |-> r.ok, err |-> r.err]
    /\ UNCHANGED agentVars
    /\ UNCHANGED <<ctxs, tokens, clock, tool_trace, agg, pushed, vendor>>

\* registry.unregister(name)
RegistryUnregister(name) ==
    /\ LET r == unregister(registered, name)
       IN /\ registered' = r.tools
          /\ last_call' = [fn |-> "unregister", name |-> name,
                           before |-> registered, removed |-> r.removed]
    /\ UNCHANGED agentVars
    /\ UNCHANGED <<ctxs, tokens, clock, tool_trace, agg, pushed, vendor>>

\* The same call of execute on two executors over the registry that differ
\* at most in the tool's dangerous flag and in
\* require_confirmation_for_dangerous.
ExecutorExecute(ctx, name, confirm1, dangerous2, confirm2) ==
    /\ LET ex1 == ToolExecutorOf(registered, confirm1)
           ex2 == ToolExecutorOf(WithDangerous(registered, name, dangerous2),
                                 confirm2)
       IN last_call' =
            [fn |-> "execute", name |-> name, ctx |-> ctx,
             executors |-> <<ex1, ex2>>,
             out |-> <<executor_execute(ex1, ctx, 0, name),
                       executor_execute(ex2, ctx, 0, name)>>,
             needs_confirmation |-> <<needs_confirmation(ex1, name),
                                      needs_confirmation(ex2, name)>>]
    /\ UNCHANGED agentVars
    /\ UNCHANGED <<ctxs, tokens, clock, tool_trace, agg, pushed, vendor,
                   registered>>

NextRegistry ==
    \/ \E tool \in Tools : RegistryRegister(tool)
    \/ \E name \in ToolNames : RegistryUnregister(name)
    \/ \E ctx \in {ContextNew, cancel(ContextNew)}, name \in ToolNames,
          confirm1 \in BOOLEAN, dangerous2 \in BOOLEAN, confirm2 \in BOOLEAN :
           ExecutorExecute(ctx, name, confirm1, dangerous2, confirm2)

\* One ToolRegistry, and ToolExecutors over it.
SpecRegistry == Init /\ [][NextRegistry]_vars

\* C28: register with a name that is already registered fails with
\* AlreadyRegistered and leaves the registry as it was (same length, get
\* returns the original tool); after unregister(name) the name is not
\* contained and registering a tool of that name succeeds.
C28_DuplicateRefusedUnregisterFrees ==
    /\ (last_call.fn = "register" /\ contains(last_call.before, last_call.name)) =>
          /\ ~last_call.ok
          /\ last_call.err = "AlreadyRegistered"
          /\ len(registered) = len(last_call.before)
          /\ get(registered, last_call.name) = get(last_call.before, last_call.name)
          /\ registered = last_call.before
    /\ (last_call.fn = "register" /\ ~contains(last_call.before, last_call.name)) =>
          /\ last_call.ok
          /\ get(registered, last_call.name) = Some(last_call.tool)
    /\ last_call.fn = "unregister" =>
          /\ ~contains(registered, last_call.name)
          /\ last_call.removed = get(last_call.before, last_call.name)
          /\ \A tool \in Tools :
                tool.name = last_call.name =>
                    /\ register(registered, tool).ok
                    /\ get(register(registered, tool).tools, tool.name) = Some(tool)

\* C28 witness: a second, different tool named echo was refused while shell
\* was registered too, and the first echo is still the one get returns.
C28_Witness ==
    /\ last_call.fn = "register"
    /\ last_call.name = "echo"
    /\ ~last_call.ok
    /\ len(registered) = 2
    /\ get(registered, "echo") # Some(last_call.tool)

\* C29: the result of execute depends neither on the tool's dangerous flag
\* nor on require_confirmation_for_dangerous, and needs_confirmation(name) is
\* true exactly when confirmation is required, the name is registered and
\* the registered tool is dangerous.
C29_DangerousIsAdvisory ==
    last_call.fn = "execute" =>
        /\ last_call.out[1] = last_call.out[2]
        /\ \A k \in {1, 2} :
              LET ex == last_call.executors[k] IN
              last_call.needs_confirmation[k] <=>
                  /\ ex.require_confirmation_for_dangerous
                  /\ contains(ex.registry, last_call.name)
                  /\ ex.registry[last_call.name].dangerous

\* C29 witness: a dangerous tool on an executor that requires confirmation
\* and the same tool, harmless, on one that does not, ran to the same result.
C29_Witness ==
    /\ last_call.fn = "execute"
    /\ last_call.needs_confirmation = <<TRUE, FALSE>>
    /\ ~last_call.executors[2].require_confirmation_for_dangerous
    /\ ~is_dangerous(last_call.executors[2], last_call.name)
    /\ last_call.out[1].ok
    /\ last_call.out[1].calls = <<"get", "is_cancelled", "validate_input", "execute">>

\* ------------------------------------------------------- the sandbox rules

\* SandboxConfig::default: nothing allowed or denied by name, no shell,
\* network allowed.
SandboxConfigDefault ==
    [allowed_paths |-> {}, denied_paths |-> {}, allowed_hosts |-> {},
     denied_hosts |-> {}, allow_shell |-> FALSE, allow_network |-> TRUE]

\* Path::starts_with: the components of base are the first components of
\* path, as written (a path is the sequence of its components).
starts_with(path, base) ==
    /\ Len(base) <= Len(path)
    /\ \A i \in 1..Len(base) : path[i] = base[i]

\* A faulty is_path_allowed: the allowed paths are looked at first.
is_path_allowed_allow_first(config, path) ==
    IF \E allowed \in config.allowed_paths : starts_with(path, allowed)
    THEN TRUE
    ELSE IF \E denied \in config.denied_paths : starts_with(path, denied)
    THEN FALSE
    ELSE config.allowed_paths = {}

\* SandboxConfig::is_path_allowed
is_path_allowed(config, path) ==
    IF \E denied \in config.denied_paths : starts_with(path, denied)
    THEN FALSE
    ELSE IF config.allowed_paths = {}
    THEN TRUE
    ELSE \E allowed \in config.allowed_paths : starts_with(path, allowed)

\* SandboxConfig::is_host_allowed
is_host_allowed(config, host) ==
    IF ~config.allow_network THEN FALSE
    ELSE IF host \in config.denied_hosts THEN FALSE
    ELSE IF config.allowed_hosts = {} THEN TRUE
    ELSE host \in config.allowed_hosts

\* The paths configurations allow or deny.
ConfigPaths ==
    {<<"home", "user", "workspace">>, <<"home", "user", "workspace", "secrets">>,
     <<"etc">>}

\* The paths asked about: inside and outside of those, the root, a sibling
\* whose name only begins like an allowed one, and one that leaves an
\* allowed directory through "..".
AskedPaths ==
    {<<"home", "user", "workspace", "project">>,
     <<"home", "user", "workspace", "secrets", "key">>,
     <<"home", "user", "workspace">>,
     <<"home", "user", "workspace2">>,
     <<"home", "user", "workspace", "..", "other">>,
     <<"etc", "passwd">>, <<"any", "path">>, <<>>}

\* The hosts configurations allow or deny, and the hosts asked about.
ConfigHosts == {"api.example.com", "malicious.com"}

AskedHosts == ConfigHosts \cup {"other.com"}

\* config.is_path_allowed(path) on a configuration built with allow_path
\* and deny_path.
CheckPath(allowed, denied, path) ==
    /\ last_call.fn = "none"
    /\ LET config == [SandboxConfigDefault EXCEPT !.allowed_paths = allowed,
                                                  !.denied_paths = denied]
       IN last_call' = [fn |-> "is_path_allowed", config |-> config,
                        path |-> path, result |-> is_path_allowed(config, path)]
    /\ UNCHANGED agentVars
    /\ UNCHANGED <<ctxs, tokens, clock, tool_trace, agg, pushed, vendor,
                   registered>>

\* config.is_host_allowed(host) on a configuration built with allow_host,
\* deny_host and with_network.
CheckHost(allowed, denied, network, host) ==
    /\ last_call.fn = "none"
    /\ LET config == [SandboxConfigDefault EXCEPT !.allowed_hosts = allowed,
                                                  !.denied_hosts = denied,
                                                  !.allow_network = network]
       IN last_call' = [fn |-> "is_host_allowed", config |-> config,
                        host |-> host, result |-> is_host_allowed(config, host)]
    /\ UNCHANGED agentVars
    /\ UNCHANGED <<ctxs, tokens, clock, tool_trace, agg, pushed, vendor,
                   registered>>

\* The answer was used and dropped.
CheckReturned ==
    /\ last_call.fn \in {"is_path_allowed", "is_host_allowed"}
    /\ last_call' = NoCall
    /\ UNCHANGED agentVars
    /\ UNCHANGED <<ctxs, tokens, clock, tool_trace, agg, pushed, vendor,
                   registered>>

NextSandbox ==
    \/ \E allowed \in SUBSET ConfigPaths, denied \in SUBSET ConfigPaths,
          path \in AskedPaths : CheckPath(allowed, denied, path)
    \/ \E allowed \in SUBSET ConfigHosts, denied \in SUBSET ConfigHosts,
          network \in BOOLEAN, host \in AskedHosts :
           CheckHost(allowed, denied, network, host)
    \/ CheckReturned

\* Questions to SandboxConfig, one at a time.
SpecSandbox == Init /\ [][NextSandbox]_vars

\* path lies under base: base followed by further components, or base itself.
LiesUnder(path, base) == \E k \in 0..Len(path) : SubSeq(path, 1, k) = base

\* C30: deny dominates allow. is_path_allowed(p) is false whenever p lies
\* under a denied path, true for any other p when allowed_paths is empty, and
\* otherwise true exactly when p lies under an allowed path; is_host_allowed
\* is the same rule with exact host match, and false when allow_network is
\* false.
C30_DenyDominatesAllow ==
    /\ last_call.fn = "is_path_allowed" =>
          LET c == last_call.config
              p == last_call.path
              isDenied == \E d \in c.denied_paths : LiesUnder(p, d)
              isListed == \E a \in c.allowed_paths : LiesUnder(p, a)
          IN /\ isDenied => ~last_call.result
             /\ (~isDenied /\ c.allowed_paths = {}) => last_call.result
             /\ (~isDenied /\ c.allowed_paths # {}) => (last_call.result <=> isListed)
    /\ last_call.fn = "is_host_allowed" =>
          LET c == last_call.config
              h == last_call.host
          IN /\ ~c.allow_network => ~last_call.result
             /\ h \in c.denied_hosts => ~last_call.result
             /\ (c.allow_network /\ h \notin c.denied_hosts /\ c.allowed_hosts = {})
                    => last_call.result
             /\ (c.allow_network /\ h \notin c.denied_hosts /\ c.allowed_hosts # {})
                    => (last_call.result <=> h \in c.allowed_hosts)

\* C30 witness: a path under an allowed directory and under a denied one
\* inside it was refused.
C30_Witness ==
    /\ last_call.fn = "is_path_allowed"
    /\ last_call.config.allowed_paths = {<<"home", "user", "workspace">>}
    /\ last_call.config.denied_paths = {<<"home", "user", "workspace", "secrets">>}
    /\ last_call.path = <<"home", "user", "workspace", "secrets", "key">>
    /\ ~last_call.result

\* ------------------------------------------------------------ the ToolCall

\* ToolCallStatus::is_terminal
is_terminal(status) == status \in {"Completed", "Failed", "Cancelled"}

\* ToolCall::start: whatever the status was.
call_start(call, now) ==
    [call EXCEPT !.status = "Running", !.started_at = Some(now)]

\* ToolCall::complete
call_complete(call, output, now) ==
    [call EXCEPT !.status = "Completed", !.output = Some(output),
                 !.completed_at = Some(now)]

\* ToolCall::fail
call_fail(call, error, now) ==
    [call EXCEPT !.status = "Failed", !.error = Some(error),
                 !.completed_at = Some(now)]

\* ToolCall::cancel
call_cancel(call, now) ==
    [call EXCEPT !.status = "Cancelled", !.completed_at = Some(now)]

\* call.start()
ToolCallStart ==
    /\ tool_call' = call_start(tool_call, clock)
    /\ UNCHANGED <<baseVars, sessions, requests, arcs, rx_dropped, tools_enabled>>

\* call.complete(output)
ToolCallComplete ==
    /\ tool_call' = call_complete(tool_call, "out", clock)
    /\ UNCHANGED <<baseVars, sessions, requests, arcs, rx_dropped, tools_enabled>>

\* call.fail(error)
ToolCallFail ==
    /\ tool_call' = call_fail(tool_call, "boom", clock)
    /\ UNCHANGED <<baseVars, sessions, requests, arcs, rx_dropped, tools_enabled>>

\* call.cancel()
ToolCallCancel ==
    /\ tool_call' = call_cancel(tool_call, clock)
    /\ UNCHANGED <<baseVars, sessions, requests, arcs, rx_dropped, tools_enabled>>

NextToolCall ==
    \/ ToolCallStart
    \/ ToolCallComplete
    \/ ToolCallFail
    \/ ToolCallCancel
    \/ ClockTick

\* Any sequence of start, complete, fail and cancel on one ToolCall, over
\* time.
SpecToolCall == Init /\ [][NextToolCall]_vars

\* C31: the status of a ToolCall moves only Pending -> Running and
\* Running -> Completed, Failed or Cancelled, whatever is called: no call
\* leaves a terminal status, none reaches one from Pending, and a terminal
\* status comes with a completed_at timestamp.
C31_StatusLifecycle ==
    [][/\ tool_call'.status # tool_call.status =>
            \/ tool_call.status = "Pending" /\ tool_call'.status = "Running"
            \/ tool_call.status = "Running" /\ is_terminal(tool_call'.status)
       /\ is_terminal(tool_call'.status) => tool_call'.completed_at # None]_vars

\* ------------------------------------------------- the server's session cache

\* The most Session values the requests allocate.
MaxSessions == 4

\* The session ids the clients send.
SessionIds == {"a", "b"}

\* The ids Id::new generates, by allocation.
GeneratedIds == <<"g1", "g2", "g3", "g4", "g5", "g6", "g7", "g8">>

\* Session::with_id: an empty session of its own (a fresh Arc) with the
\* given id.
with_id(id) == [id |-> id, len |-> 0]

\* HashMap::insert: the entry under id is replaced.
insert(map, id, arc) == (id :> arc) @@ map

\* get_or_create_session is called with session_id (None or Some(id)).
GetOrCreateCalled(r, session_id) ==
    /\ requests[r].pc \in {"idle", "done"}
    /\ Len(arcs) < MaxSessions
    /\ requests' = [requests EXCEPT ![r] = [pc |-> "called", id |-> session_id, got |-> 0]]
    /\ UNCHANGED <<baseVars, tool_call, sessions, arcs, rx_dropped, tools_enabled>>

\* Some(id), under the read lock: a cached session is cloned and returned;
\* if there is none the lock is dropped.
LookupSession(r) ==
    /\ requests[r].pc = "called"
    /\ requests[r].id # None
    /\ LET id == requests[r].id[1]
       IN  requests' = [requests EXCEPT ![r] =
                IF id \in DOMAIN sessions
                    THEN [@ EXCEPT !.pc = "done", !.got = sessions[id]]
                    ELSE [@ EXCEPT !.pc = "missed"]]
    /\ UNCHANGED <<baseVars, tool_call, sessions, arcs, rx_dropped, tools_enabled>>

\* Some(id) after a miss: Session::with_id, inserted under the write lock and
\* returned.
InsertSession(r) ==
    /\ requests[r].pc = "missed"
    /\ LET id == requests[r].id[1]
           arc == Len(arcs) + 1
       IN  /\ arcs' = Append(arcs, with_id(id))
           /\ sessions' = insert(sessions, id, arc)
           /\ requests' = [requests EXCEPT ![r] = [@ EXCEPT !.pc = "done", !.got = arc]]
    /\ UNCHANGED <<baseVars, tool_call, rx_dropped, tools_enabled>>

\* None: agent.create_session() with a generated id, inserted and returned.
CreateSession(r) ==
    /\ requests[r].pc = "called"
    /\ requests[r].id = None
    /\ LET arc == Len(arcs) + 1
           id == GeneratedIds[arc]
       IN  /\ arcs' = Append(arcs, with_id(id))
           /\ sessions' = insert(sessions, id, arc)
           /\ requests' = [requests EXCEPT ![r] = [@ EXCEPT !.pc = "done", !.got = arc]]
    /\ UNCHANGED <<baseVars, tool_call, rx_dropped, tools_enabled>>

NextServer ==
    \/ \E r \in Requests, id \in SessionIds : GetOrCreateCalled(r, Some(id))
    \/ \E r \in Requests : GetOrCreateCalled(r, None)
    \/ \E r \in Requests : LookupSession(r)
    \/ \E r \in Requests : InsertSession(r)
    \/ \E r \in Requests : CreateSession(r)

\* Two request handlers calling get_or_create_session, interleaved at the
\* lock acquisitions.
SpecServer == Init /\ [][NextServer]_vars

\* C32: every Session that get_or_create_session(Some(id)) has returned
\* shares its state with the one cached under id, whose id is id, however
\* the calls interleave.
C32_OneSessionPerId ==
    \A r \in Requests :
        (requests[r].pc = "done" /\ requests[r].id # None) =>
            LET id == requests[r].id[1]
            IN  /\ id \in DOMAIN sessions
                /\ requests[r].got = sessions[id]
                /\ arcs[requests[r].got].id = id

\* ------------------------------------------------- chats without tool-uses

\* The most chat calls made on the session.
MaxChats == 3

\* What the user says.
ChatInputs == {"Hi", "Again"}

\* A provider that answers every request with text and no tool-use.
TextProviderResults ==
    {[ok |-> TRUE, content |-> <<TextBlock(t)>>] : t \in {"Hello!", "Bye"}}

\* Successive chat calls on one session against that provider.
NextChat ==
    \/ \E user_input \in ChatInputs : Start("p1", user_input, 2 * MaxChats)
    \/ LoopHead("p1")
    \/ \E r \in TextProviderResults : Complete("p1", r)

SpecChat == InitAgent /\ [][NextChat]_vars

\* The log is user, assistant, user, assistant, ...
Alternates(messages) ==
    \A i \in 1..Len(messages) :
        messages[i].role = (IF i % 2 = 1 THEN "user" ELSE "assistant")

\* C33: between chat calls that all succeeded without tool-uses, the session
\* holds two messages per call, user then assistant in call order (each call
\* appends after what was there), the stats count one iteration per call, and
\* the response just returned has iterations = 1 and the text of the last
\* message.
C33_TwoMessagesPerChat ==
    /\ [](pc["p1"] \in {"idle", "done"} =>
            /\ Len(inner.messages) % 2 = 0
            /\ Alternates(inner.messages)
            /\ inner.stats.message_count = Len(inner.messages)
            /\ 2 * inner.stats.iteration_count = Len(inner.messages)
            /\ pc["p1"] = "done" =>
                    /\ result["p1"].kind = "ok"
                    /\ result["p1"].iterations = 1
                    /\ result["p1"].tool_calls = <<>>
                    /\ AssistantMessage(result["p1"].text)
                            = inner.messages[Len(inner.messages)])
    /\ [][/\ Len(inner'.messages) >= Len(inner.messages)
          /\ SubSeq(inner'.messages, 1, Len(inner.messages)) = inner.messages]_vars

\* Two chats have returned.
C33_Witness ==
    /\ pc["p1"] = "done"
    /\ Len(inner.messages) = 4
    /\ inner.stats.iteration_count = 2
    /\ inner.messages[1] # inner.messages[3]

\* --------------------------------------------- one tool-use, then the text

\* A process call on a fresh session has returned Ok after the provider
\* answered once with a single tool-use and then with text.
OneToolUseThenText(p) ==
    /\ pc[p] = "done"
    /\ result[p].kind = "ok"
    /\ at_start[p].len = 0
    /\ served[p] = <<"tool_use", "text">>
    /\ Len(all_tool_calls[p]) = 1

\* What such a call returns: the final text, iterations = 2 and one record
\* with the id and name of the tool-use and the output and flag of its result.
ReturnsTextAndOneRecord(p) ==
    /\ result[p].iterations = 2
    /\ Len(result[p].tool_calls) = 1
    /\ Len(inner.messages) >= 4
    /\ AssistantMessage(result[p].text) = inner.messages[4]
    /\ LET record == result[p].tool_calls[1]
           use == tool_uses_of(inner.messages[2].content)[1]
           res == inner.messages[3].content[1]
       IN  /\ record.id = use.id
           /\ record.name = use.name
           /\ record.is_error = res.is_error
           /\ res.id = use.id
           /\ Some(record.output) = (IF res.is_error THEN res.error ELSE res.content)

\* C34 as stated: after one tool-use and the final text on a fresh session the
\* call returns that text with iterations = 2 and one tool-call record, and
\* the session holds 5 messages.
C34_FiveMessages ==
    OneToolUseThenText("p1") =>
        /\ ReturnsTextAndOneRecord("p1")
        /\ Len(inner.messages) = 5

\* C34 amended: the same, with the session holding 4 messages: user,
\* assistant with the tool-use, tool with the result, assistant with the text.
C34_FourMessages ==
    OneToolUseThenText("p1") =>
        /\ ReturnsTextAndOneRecord("p1")
        /\ Len(inner.messages) = 4
        /\ [i \in 1..4 |-> inner.messages[i].role]
                = <<"user", "assistant", "tool", "assistant">>
        /\ inner.stats.tool_call_count = 1

\* Such a call has returned, the tool having run in the registry.
C34_Witness ==
    /\ OneToolUseThenText("p1")
    /\ tools = "some"
    /\ ~result["p1"].tool_calls[1].is_error

\* ------------------------------------------- tool-call fragments of a stream

\* C35: every ToolUseDelta the stream has yielded carries the id of a
\* ToolUseStart yielded before it, continuation events without a tool-call id
\* included, so pushing it appends its fragment to a tool-use of the
\* aggregator.
C35_DeltaCarriesStartedId ==
    \A i \in DOMAIN vendor.chunks :
        vendor.chunks[i].type = "ToolUseDelta" =>
            /\ \E j \in 1..(i - 1) :
                    /\ vendor.chunks[j].type = "ToolUseStart"
                    /\ vendor.chunks[j].id = vendor.chunks[i].id
            /\ PushAll(AggregatorNew, SubSeq(vendor.chunks, 1, i))
                    # PushAll(AggregatorNew, SubSeq(vendor.chunks, 1, i - 1))

\* ------------------------------------------ the deadline of one execute_tools

\* The time the earlier tool-uses of this execute_tools call have consumed
\* when the last tools.execute was entered.
ConsumedBefore == last_exec.now

\* tool_timeout less the time consumed, not below zero.
LeftOfToolTimeout ==
    IF tool_timeout > ConsumedBefore THEN tool_timeout - ConsumedBefore ELSE 0

\* C36: the tool-uses of one iteration run against one deadline, tool_timeout
\* after execute_tools began: a tool that gets to run is given at most what
\* the earlier ones left of tool_timeout and takes no longer than it is
\* given, a tool dispatched when the deadline has come is given zero, and the
\* time the tools of the iteration take together does not exceed
\* tool_timeout.
C36_SharedDeadline ==
    (tools = "some" /\ pc["p1"] \in {"tools", "record"} /\ tool_results["p1"] # <<>>) =>
        /\ last_exec.called
        /\ last_exec.ctx.deadline = Some(tool_timeout)
        /\ last_exec.out.timeout <= LeftOfToolTimeout
        /\ last_exec.out.took <= last_exec.out.timeout
        /\ ConsumedBefore >= tool_timeout => last_exec.out.timeout = 0
        /\ tool_ctx.now = ConsumedBefore + last_exec.out.took
        /\ tool_ctx.now <= tool_timeout

\* A second tool-use was dispatched when the first had used up tool_timeout,
\* and its tool was called.
C36_Witness ==
    /\ tools = "some"
    /\ pc["p1"] = "record"
    /\ Len(tool_results["p1"]) = 2
    /\ ConsumedBefore = tool_timeout
    /\ last_exec.out.calls[Len(last_exec.out.calls)] = "execute"
    /\ last_exec.out.timeout = 0

\* ----------------------------------------------------- tools switched off

\* The agent is built once, with or without a tool registry and with
\* tools_enabled set or not.
InitConfigured ==
    /\ inner = NewInner
    /\ appends = 0
    /\ last_op = NoOp
    /\ IdleProcs
    /\ IdleExt
    /\ IdleLib
    /\ tool_call = ToolCallNew
    /\ sessions = <<>>
    /\ requests = [r \in Requests |-> [pc |-> "idle", id |-> None, got |-> 0]]
    /\ arcs = <<>>
    /\ rx_dropped = FALSE
    /\ tools_enabled \in BOOLEAN
    /\ tools \in {"none", "some"}

\* One caller's process calls on such an agent.
SpecConfigured == InitConfigured /\ [][NextTools]_vars

\* build_request, the tools of the request: the registry's definitions when
\* tools_enabled, a registry is there and it is not empty.
request_tools ==
    IF tools_enabled /\ tools = "some" /\ RegisteredTools # {}
    THEN Some(RegisteredTools) ELSE None

\* C37: with tools_enabled false no request carries tool definitions and no
\* tool-use of the provider's answer is executed against the registry.
C37_DisabledToolsNeverDispatched ==
    ~tools_enabled =>
        /\ request_tools = None
        /\ ~last_exec.called

\* ------------------------------------------------------ the context window

\* The largest max_context_messages an agent is configured with here.
MaxWindow == 3

\* Executor::build_request on an agent configured with
\* max_context_messages = n: the messages of the request.
request_messages(s, n) == last_messages(s, n)

\* Every ToolResult of the messages comes after an assistant message of the
\* same sequence that holds the ToolUse with its id.
ToolResultsPaired(messages) ==
    \A i \in DOMAIN messages :
        \A k \in DOMAIN messages[i].content :
            IsToolResult(messages[i].content[k]) =>
                \E j \in 1..(i - 1) :
                    /\ messages[j].role = "assistant"
                    /\ \E u \in DOMAIN messages[j].content :
                            /\ IsToolUse(messages[j].content[u])
                            /\ messages[j].content[u].id = messages[i].content[k].id

\* C38: whatever max_context_messages is, the request the loop builds holds,
\* before each ToolResult, the assistant message with the ToolUse of that id.
C38_WindowKeepsToolUse ==
    pc["p1"] = "llm" =>
        \A n \in 1..MaxWindow : ToolResultsPaired(request_messages(inner, n))

\* --------------------------------------------------- completion is monotone

\* C39: once is_complete() is true it stays true after every push, whatever
\* the chunk; only clear() makes it false again.
C39_CompletionMonotone ==
    [][(is_complete(agg) /\ last_call'.fn = "push") => is_complete(agg')]_vars

\* ------------------------------------------------ the subscriber goes away

\* The subscriber drops the ReceiverStream before the terminal event was
\* sent: the channel is closed and what it held is gone.
DropReceiver ==
    /\ ~rx_dropped
    /\ stream_pc \in {"spawned", "started", "text_sent"}
    /\ rx_dropped' = TRUE
    /\ chan' = <<>>
    /\ UNCHANGED <<inner, appends, last_op, pc, iterations, served, cur_uses,
                   tool_results, all_tool_calls, result, at_start, tools,
                   sent, stream_pc, observed, tool_ctx, last_exec, libVars,
                   tool_call, sessions, requests, arcs, tools_enabled>>

\* A faulty send on the closed channel: the SendError is propagated and
\* execute_stream returns at once.
SendToDroppedReturns(p) ==
    /\ rx_dropped
    /\ stream_pc \in {"spawned", "started", "text_sent"}
    /\ stream_pc = "started" => pc[p] = "done"
    /\ stream_pc' = "returned"
    /\ UNCHANGED <<inner, appends, last_op, pc, iterations, served, cur_uses,
                   tool_results, all_tool_calls, result, at_start, tools,
                   sent, chan, observed, tool_ctx, last_exec, libVars, srvVars>>

\* let _ = tx.send(..).await on the closed channel: the send fails, the
\* result is thrown away and execute_stream goes on to its next line.
SendToDropped(p) ==
    /\ rx_dropped
    /\ \/ /\ stream_pc = "spawned"
          /\ stream_pc' = "started"
       \/ /\ stream_pc = "started"
          /\ pc[p] = "done"
          /\ stream_pc' = IF result[p].kind = "ok" THEN "text_sent" ELSE "returned"
       \/ /\ stream_pc = "text_sent"
          /\ stream_pc' = "returned"
    /\ UNCHANGED <<inner, appends, last_op, pc, iterations, served, cur_uses,
                   tool_results, all_tool_calls, result, at_start, tools,
                   sent, chan, observed, tool_ctx, last_exec, libVars, srvVars>>

\* The steps of the spawned task, whether the subscriber listens or not.
DetachedTaskStep ==
    \/ ~rx_dropped /\ SendMessageStart("p1")
    \/ StreamEnter("p1")
    \/ LoopHead("p1")
    \/ \E r \in ProviderResults : Complete("p1", r)
    \/ \E o \in ToolOutcomes : ExecuteTool("p1", o)
    \/ ToolsUnavailable("p1")
    \/ RecordToolResults("p1")
    \/ ~rx_dropped /\ SendTextComplete("p1")
    \/ ~rx_dropped /\ SendMessageEnd("p1")
    \/ ~rx_dropped /\ SendError("p1")
    \/ SendToDropped("p1")

\* The steps of a subscriber that has not dropped the stream.
SubscriberStep ==
    \/ ~rx_dropped /\ Recv
    \/ ~rx_dropped /\ StreamEnds
    \/ DropReceiver

NextDrop ==
    \/ ~rx_dropped /\ ChatStream("p1")
    \/ DetachedTaskStep
    \/ SubscriberStep

\* chat_stream with a subscriber that may drop the stream at any moment; the
\* runtime keeps running the spawned task, the provider and the tools return.
SpecDrop ==
    /\ InitAgent
    /\ [][NextDrop]_vars
    /\ WF_vars(DetachedTaskStep)

\* How many requests of the call the provider answered in this way.
ServedCount(p, kind) ==
    Cardinality({i \in DOMAIN served[p] : served[p][i] = kind})

\* The task has returned from a loop that ran to its end: the session holds
\* the user message and, after it, two messages per tool-use answer and one
\* for the text, the last being the text returned.
LoopRanToCompletion(p) ==
    /\ pc[p] = "done"
    /\ result[p] # NoResult
    /\ Len(inner.messages) = at_start[p].len + 1
            + 2 * ServedCount(p, "tool_use") + ServedCount(p, "text")
    /\ inner.messages[at_start[p].len + 1] = UserMessage("Hi")
    /\ result[p].kind = "ok" =>
            inner.messages[Len(inner.messages)] = AssistantMessage(result[p].text)

\* C40: after the subscriber dropped the stream the spawned task still
\* returns, and when it has, the loop has run to its end and the session
\* holds the user message and every message the loop appended; the failed
\* sends leave nothing in the channel.
C40_DropDoesNotCancel ==
    /\ [](rx_dropped => chan = <<>>)
    /\ []((rx_dropped /\ stream_pc = "returned") => LoopRanToCompletion("p1"))
    /\ (rx_dropped ~> stream_pc = "returned")

\* The stream was dropped before anything was received, and the task has
\* returned from a call that used a tool and ended with a text.
C40_Witness ==
    /\ rx_dropped
    /\ observed = <<>>
    /\ stream_pc = "returned"
    /\ result["p1"].kind = "ok"
    /\ Len(result["p1"].tool_calls) > 0

====
